---- MODULE Spec2Model ----
(***************************************************************************)
(* A model of eosjs' Api class (src/src/eosjs-api.ts): the ABI and         *)
(* contract caches, the reference-block (TAPOS) resolver and the           *)
(* transact pipeline.  Every action is the synchronous code that runs      *)
(* between two suspension points (awaited remote calls) of one call.       *)
(***************************************************************************)
EXTENDS Integers, Sequences, FiniteSets, TLC

VARIABLES
    chainId,      \* Api.chainId ("" when undefined)
    wasmAbis,     \* Api.wasmAbiProvider: [present, accounts]
    cachedAbis,   \* Api.cachedAbis: a map account -> CachedAbi
    contracts,    \* Api.contracts: a map account -> Contract
    chainAbi,     \* the node: the ABI revision currently published per account
    calls         \* the calls in flight: slot -> call record

vars == <<chainId, wasmAbis, cachedAbis, contracts, chainAbi, calls>>

(***************************************************************************)
(* Bounds of the model.                                                    *)
(***************************************************************************)
MaxCalls == 2       \* calls that may be in flight together
MaxVer == 2         \* ABI revisions an account publishes
MaxActions == 2     \* actions of a transaction

Calls == 1..MaxCalls
Accounts == {"eosio.token", "returnvalue"}

(***************************************************************************)
(* Values.                                                                 *)
(***************************************************************************)
Undef == [t |-> "undefined", v |-> 0]
Num(n) == [t |-> "number", v |-> n]
Str == [t |-> "string", v |-> 0]
Null == [t |-> "null", v |-> 0]

IsNumber(x) == x.t = "number"
Truthy(x) == (x.t = "number" /\ x.v # 0) \/ x.t = "string"

NoErr == [prefix |-> <<>>, msg |-> ""]
Err(m) == [prefix |-> <<>>, msg |-> m]

Ev(op, acct, num) == [op |-> op, acct |-> acct, num |-> num]

SupportedHeader == "eosio::abi/1.1"
Headers == {SupportedHeader, "eosio::abi/2.0"}

\* Raw ABI bytes as the AbiProvider returns them: the revision they encode,
\* their leading version string, and whether the rest decodes.
RawAbis(lo, hi) == [v : lo..hi, hdr : Headers, wf : BOOLEAN]

NoRaw == [v |-> 0, hdr |-> "", wf |-> FALSE]
NoAbi == [v |-> 0, version |-> "", actions |-> 0]
NoCachedAbi == [rawAbi |-> NoRaw, abi |-> NoAbi]
NoContract == [types |-> 0, actions |-> 0]

\* ser.supportedAbiVersion: the version string has a supported prefix.
supportedAbiVersion(hdr) == hdr = SupportedHeader

\* abiTypes.get('abi_def').deserialize: the structured document of the bytes.
deserializeAbiDef(raw) == [v |-> raw.v, version |-> raw.hdr, actions |-> raw.v]

\* rawAbiToJson without its version check.
rawAbiToJson_NoVersionCheck(raw) ==
    IF ~raw.wf
    THEN [ok |-> FALSE, err |-> "deserialize", abi |-> NoAbi]
    ELSE [ok |-> TRUE, err |-> "", abi |-> deserializeAbiDef(raw)]

\* Api.rawAbiToJson: [ok, err, abi].
rawAbiToJson(raw) ==
    IF ~supportedAbiVersion(raw.hdr)
    THEN [ok |-> FALSE, err |-> "Unsupported abi version", abi |-> NoAbi]
    ELSE IF ~raw.wf
    THEN [ok |-> FALSE, err |-> "deserialize", abi |-> NoAbi]
    ELSE [ok |-> TRUE, err |-> "", abi |-> deserializeAbiDef(raw)]

\* The Contract of an ABI (getContract's lines 181-186): its types and its
\* action -> type map, both determined by the ABI document.
ContractOf(abi) == [types |-> abi.v, actions |-> abi.actions]

\* Map.set
MapSet(m, k, val) == (k :> val) @@ m

(***************************************************************************)
(* Calls.                                                                  *)
(***************************************************************************)
NoInfo == [chain_id |-> "", head_block_num |-> 0, last_irreversible_block_num |-> 0]
NoTx == [expiration |-> Undef, ref_block_num |-> Undef, ref_block_prefix |-> Undef,
         context_free_actions |-> <<>>, actions |-> <<>>, context_free_data |-> <<>>]
NoKeys == [def |-> FALSE, keys |-> {}]
NoCfg == [broadcast |-> FALSE, sign |-> FALSE, requiredKeys |-> NoKeys,
          compression |-> FALSE, blocksBehind |-> Undef,
          useLastIrreversible |-> FALSE, expireSeconds |-> Undef]
NullBytes == [isNull |-> TRUE, count |-> 0, data |-> <<>>]
NoBytes == [encoder |-> "", expiration |-> Undef, ref_block_num |-> Undef,
            ref_block_prefix |-> Undef, context_free_actions |-> <<>>, actions |-> <<>>]
NoArgs == [signatures |-> <<>>, serializedTransaction |-> NoBytes,
           serializedContextFreeData |-> NullBytes, compression |-> 0]
NoSignReq == [chainId |-> "", requiredKeys |-> {}, serializedTransaction |-> NoBytes,
              serializedContextFreeData |-> NullBytes, abis |-> <<>>]
NoKeysReq == [transaction |-> NoTx, availableKeys |-> {}]
NoResult == [processed |-> FALSE, action_traces |-> <<>>]
NoResponse == [none |-> TRUE]

IdleCall ==
    [op |-> "idle", pc |-> "idle", account |-> "", reload |-> FALSE, short |-> FALSE,
     arg |-> NoTx, tx |-> NoTx, cfg |-> NoCfg, info |-> NoInfo, refNum |-> 0,
     tasks |-> <<>>, abis |-> <<>>, args |-> NoArgs, sent |-> NoArgs,
     requiredKeys |-> NoKeys, keysReq |-> NoKeysReq, signReq |-> NoSignReq,
     signResponse |-> NoArgs, response |-> NoResponse, hooks |-> <<>>,
     result |-> NoResult, err |-> NoErr, log |-> <<>>]

\* The world the synchronous code of call k reads and writes.
World(c) == [chainId |-> chainId, cachedAbis |-> cachedAbis,
             contracts |-> contracts, k |-> calls[c]]

Commit(c, w) ==
    /\ chainId' = w.chainId
    /\ cachedAbis' = w.cachedAbis
    /\ contracts' = w.contracts
    /\ calls' = [calls EXCEPT ![c] = w.k]
    /\ UNCHANGED <<wasmAbis, chainAbi>>

Return(w, r) == [w EXCEPT !.k.pc = "done", !.k.result = r]
Throw(w, e) == [w EXCEPT !.k.pc = "done", !.k.err = e]
Await(w, pc, ev) == [w EXCEPT !.k.pc = pc, !.k.log = Append(@, ev)]

IsWasm(a) == wasmAbis.present /\ a \in wasmAbis.accounts

(***************************************************************************)
(* getCachedAbi, one invocation being one task of the calling operation.   *)
(***************************************************************************)
NewTask(a, st, lo, res) == [acct |-> a, st |-> st, lo |-> lo, res |-> res, err |-> NoErr]

TaskOk(t) == t.st \in {"hit", "ok"}

\* getCachedAbi that never looks at the cache.
getCachedAbiEnter_AlwaysFetch(w, a, reload) ==
    [w EXCEPT !.k.tasks = Append(@, NewTask(a, "pending", chainAbi[a], NoCachedAbi)),
              !.k.log = Append(@, Ev("getRawAbi", a, 0))]

\* getCachedAbi that drops the account's entry when asked to reload.
getCachedAbiEnter_InvalidateOnReload(w, a, reload) ==
    IF ~reload /\ a \in DOMAIN w.cachedAbis
    THEN [w EXCEPT !.k.tasks = Append(@, NewTask(a, "hit", 0, w.cachedAbis[a]))]
    ELSE [w EXCEPT !.cachedAbis = [b \in DOMAIN @ \ {a} |-> @[b]],
                   !.k.tasks = Append(@, NewTask(a, "pending", chainAbi[a], NoCachedAbi)),
                   !.k.log = Append(@, Ev("getRawAbi", a, 0))]

\* Lines 130-136: return the cached entry, or call getRawAbi and suspend.
getCachedAbiEnter(w, a, reload) ==
    IF ~reload /\ a \in DOMAIN w.cachedAbis
    THEN [w EXCEPT !.k.tasks = Append(@, NewTask(a, "hit", 0, w.cachedAbis[a]))]
    ELSE [w EXCEPT !.k.tasks = Append(@, NewTask(a, "pending", chainAbi[a], NoCachedAbi)),
                   !.k.log = Append(@, Ev("getRawAbi", a, 0))]

FetchError(a, m) == [prefix |-> <<"fetching abi for", a>>, msg |-> m]

\* getCachedAbi that keeps the entry it finds when that one is of a later
\* revision than the one fetched.
getCachedAbiResume_KeepNewer(w, i, rsp) ==
    LET a == w.k.tasks[i].acct
        j == rawAbiToJson(rsp.raw)
        cachedAbi == [rawAbi |-> rsp.raw, abi |-> j.abi]
    IN  IF rsp.fail
        THEN [w EXCEPT !.k.tasks[i].st = "failed",
                       !.k.tasks[i].err = FetchError(a, "getRawAbi")]
        ELSE IF ~j.ok
        THEN [w EXCEPT !.k.tasks[i].st = "failed",
                       !.k.tasks[i].err = FetchError(a, j.err)]
        ELSE IF a \in DOMAIN w.cachedAbis /\ w.cachedAbis[a].rawAbi.v > rsp.raw.v
        THEN [w EXCEPT !.k.tasks[i].st = "ok", !.k.tasks[i].res = cachedAbi]
        ELSE [w EXCEPT !.cachedAbis = MapSet(@, a, cachedAbi),
                       !.k.tasks[i].st = "ok",
                       !.k.tasks[i].res = cachedAbi]

\* Lines 136-147: task i resumes with the provider's answer rsp = [fail, raw].
getCachedAbiResume(w, i, rsp) ==
    LET a == w.k.tasks[i].acct
        j == rawAbiToJson(rsp.raw)
        cachedAbi == [rawAbi |-> rsp.raw, abi |-> j.abi]
    IN  IF rsp.fail
        THEN [w EXCEPT !.k.tasks[i].st = "failed",
                       !.k.tasks[i].err = FetchError(a, "getRawAbi")]
        ELSE IF ~j.ok
        THEN [w EXCEPT !.k.tasks[i].st = "failed",
                       !.k.tasks[i].err = FetchError(a, j.err)]
        ELSE [w EXCEPT !.cachedAbis = MapSet(@, a, cachedAbi),
                       !.k.tasks[i].st = "ok",
                       !.k.tasks[i].res = cachedAbi]

\* getContract, lines 181-188, once getAbi has returned abi.
getContractFinish(w, a, abi) ==
    LET result == ContractOf(abi)
    IN  Return([w EXCEPT !.contracts = MapSet(@, a, result)], result)

RECURSIVE Unique(_)
Unique(s) ==
    IF s = <<>> THEN <<>>
    ELSE LET r == Unique(SubSeq(s, 1, Len(s) - 1))
             x == s[Len(s)]
         IN  IF \E i \in 1..Len(r) : r[i] = x THEN r ELSE Append(r, x)

\* getTransactionAbis without the Set: one entry per action.
TransactionAccounts_NoDedup(tx) ==
    LET actions == tx.context_free_actions \o tx.actions
        accounts == [i \in 1..Len(actions) |-> actions[i].account]
    IN  SelectSeq(accounts, LAMBDA a : ~IsWasm(a))

\* Lines 157-166: the accounts of the actions, deduplicated, without those
\* the wasmAbiProvider holds.
TransactionAccounts(tx) ==
    LET actions == tx.context_free_actions \o tx.actions
        accounts == [i \in 1..Len(actions) |-> actions[i].account]
    IN  SelectSeq(Unique(accounts), LAMBDA a : ~IsWasm(a))

RECURSIVE EnterAll(_, _, _)
EnterAll(w, accts, reload) ==
    IF accts = <<>> THEN w
    ELSE EnterAll(getCachedAbiEnter(w, Head(accts), reload), Tail(accts), reload)

\* Lines 167-171: the BinaryAbi of every task.
AbisOf(tasks) ==
    [i \in 1..Len(tasks) |-> [accountName |-> tasks[i].acct, abi |-> tasks[i].res.rawAbi]]

AllOk(tasks) == \A i \in 1..Len(tasks) : TaskOk(tasks[i])

\* getTransactionAbis up to Promise.all: every getCachedAbi is entered.
getTransactionAbisEnter(w, tx, reload) ==
    LET w1 == EnterAll([w EXCEPT !.k.tasks = <<>>], TransactionAccounts(tx), reload)
    IN  [w1 EXCEPT !.k.pc = "abis"]

(***************************************************************************)
(* transact, from its last stage back to its first.                        *)
(***************************************************************************)
\* Lines 352-353 and 378: submit the payload, or return it.
TransactBroadcast(w) ==
    IF w.k.cfg.broadcast
    THEN Await([w EXCEPT !.k.sent = w.k.args], "send", Ev("send_transaction", "", 0))
    ELSE Return(w, w.k.args)

\* Lines 344-350: the request handed to signatureProvider.sign.
TransactSignRequest(w, requiredKeys) ==
    Await([w EXCEPT !.k.signReq =
               [chainId |-> w.chainId,
                requiredKeys |-> requiredKeys,
                serializedTransaction |-> w.k.args.serializedTransaction,
                serializedContextFreeData |-> w.k.args.serializedContextFreeData,
                abis |-> w.k.abis]],
          "sign", Ev("sign", "", 0))

\* transact that signs whatever config.sign says.
TransactSign_Always(w) ==
    IF ~w.k.cfg.requiredKeys.def
    THEN Await(w, "available_keys", Ev("getAvailableKeys", "", 0))
    ELSE TransactSignRequest(w, w.k.cfg.requiredKeys.keys)

\* transact that submits before it signs.
TransactSign_BroadcastFirst(w) ==
    IF w.k.cfg.broadcast THEN TransactBroadcast(w)
    ELSE IF w.k.cfg.sign
    THEN IF ~w.k.cfg.requiredKeys.def
         THEN Await(w, "available_keys", Ev("getAvailableKeys", "", 0))
         ELSE TransactSignRequest(w, w.k.cfg.requiredKeys.keys)
    ELSE TransactBroadcast(w)

\* transact that resolves the keys although the caller supplied them.
TransactSign_IgnoreSuppliedKeys(w) ==
    IF w.k.cfg.sign
    THEN Await(w, "available_keys", Ev("getAvailableKeys", "", 0))
    ELSE TransactBroadcast(w)

\* Lines 338-343.
TransactSign(w) ==
    IF w.k.cfg.sign
    THEN IF ~w.k.cfg.requiredKeys.def
         THEN Await(w, "available_keys", Ev("getAvailableKeys", "", 0))
         ELSE TransactSignRequest(w, w.k.cfg.requiredKeys.keys)
    ELSE TransactBroadcast(w)

\* getContract(account) of each action in turn (serializeActions, line 243),
\* every account's ABI being cached: the contracts map afterwards.
RECURSIVE ContractsAfter(_, _, _)
ContractsAfter(cs, abis, actions) ==
    IF actions = <<>> THEN cs
    ELSE LET a == Head(actions).account
             cs1 == IF IsWasm(a) \/ a \in DOMAIN cs THEN cs
                    ELSE MapSet(cs, a, ContractOf(abis[a].abi))
         IN  ContractsAfter(cs1, abis, Tail(actions))

\* ser.serializeAction: the data encoded by the contract's codec of the action.
serializeAction(contract, action) ==
    [action EXCEPT !.data = [form |-> "hex", codec |-> contract.actions]]

\* serializeActions, lines 237-247: position i converts action i.
serializeActions(cs, actions) ==
    [i \in 1..Len(actions) |->
        IF IsWasm(actions[i].account) THEN actions[i]
        ELSE serializeAction(cs[actions[i].account], actions[i])]

\* serializeTransaction, lines 202-214.
serializeTransaction(transaction) ==
    [encoder |-> "api",
     expiration |-> transaction.expiration,
     ref_block_num |-> transaction.ref_block_num,
     ref_block_prefix |-> transaction.ref_block_prefix,
     context_free_actions |-> transaction.context_free_actions,
     actions |-> transaction.actions]

\* serializeContextFreeData, lines 217-227.
serializeContextFreeData(contextFreeData) ==
    IF contextFreeData = <<>> THEN NullBytes
    ELSE [isNull |-> FALSE, count |-> Len(contextFreeData), data |-> contextFreeData]

\* Lines 331-336.
PushArgs(transaction, compression) ==
    [serializedTransaction |-> serializeTransaction(transaction),
     serializedContextFreeData |-> serializeContextFreeData(transaction.context_free_data),
     signatures |-> <<>>,
     compression |-> IF compression THEN 1 ELSE 0]

\* Lines 323-336, getTransactionAbis having resolved.
TransactAssemble(w) ==
    LET tx == w.k.tx
        cs1 == ContractsAfter(w.contracts, w.cachedAbis, tx.context_free_actions)
        cs2 == ContractsAfter(cs1, w.cachedAbis, tx.actions)
        transaction == [tx EXCEPT
            !.context_free_actions = serializeActions(cs1, tx.context_free_actions),
            !.actions = serializeActions(cs2, tx.actions)]
    IN  TransactSign([w EXCEPT !.contracts = cs2,
                               !.k.tx = transaction,
                               !.k.abis = AbisOf(w.k.tasks),
                               !.k.args = PushArgs(transaction, w.k.cfg.compression),
                               !.k.log = Append(@, Ev("assemble", "", 0))])

\* hasRequiredTaposFields that only looks at the expiration.
hasRequiredTaposFields_ExpirationOnly(tx) == Truthy(tx.expiration)

\* Lines 497-499.
hasRequiredTaposFields(tx) ==
    /\ Truthy(tx.expiration)
    /\ IsNumber(tx.ref_block_num)
    /\ IsNumber(tx.ref_block_prefix)

\* transact without the check of line 319.
TransactResolveAbis_NoCheck(w) ==
    LET w1 == getTransactionAbisEnter(w, w.k.tx, FALSE)
    IN  IF AllOk(w1.k.tasks) THEN TransactAssemble(w1) ELSE w1

\* Lines 319-323.
TransactResolveAbis(w) ==
    IF ~hasRequiredTaposFields(w.k.tx)
    THEN Throw(w, Err("Required configuration or TAPOS fields are not present"))
    ELSE LET w1 == getTransactionAbisEnter(w, w.k.tx, FALSE)
         IN  IF AllOk(w1.k.tasks) THEN TransactAssemble(w1) ELSE w1

(***************************************************************************)
(* The node's blocks and the TAPOS resolver.                               *)
(***************************************************************************)
BlockTimestamp(n) == 1000 + (n \div 2)
BlockPrefix(n) == (n * 7919) % 65521

\* The answer of get_block(n) / get_block_header_state(n).
Block(n) == [block_num |-> n, timestamp |-> BlockTimestamp(n),
             ref_block_prefix |-> BlockPrefix(n)]

\* What get_info may answer.
Infos ==
    { [chain_id |-> "cid-node", head_block_num |-> 100,
       last_irreversible_block_num |-> 97],
      [chain_id |-> "cid-node", head_block_num |-> 65540,
       last_irreversible_block_num |-> 65539] }

\* ser.transactionHeader(refBlock, expireSeconds).
transactionHeader(refBlock, expireSeconds) ==
    [expiration |-> Num(refBlock.timestamp + expireSeconds.v),
     ref_block_num |-> Num(refBlock.block_num % 65536),
     ref_block_prefix |-> Num(refBlock.ref_block_prefix)]

\* A merge in which the header's fields replace the caller's.
MergeTapos_HeaderWins(header, tx) ==
    [tx EXCEPT !.expiration = header.expiration,
               !.ref_block_num = header.ref_block_num,
               !.ref_block_prefix = header.ref_block_prefix]

\* Line 493: { ...header, ...transaction }.
MergeTapos(header, tx) ==
    [tx EXCEPT
        !.expiration = IF @.t = "undefined" THEN header.expiration ELSE @,
        !.ref_block_num = IF @.t = "undefined" THEN header.ref_block_num ELSE @,
        !.ref_block_prefix = IF @.t = "undefined" THEN header.ref_block_prefix ELSE @]

\* generateTapos resumed with refBlock, lines 488-493, then transact 319.
GenerateTaposMerge(w, refBlock) ==
    TransactResolveAbis(
        [w EXCEPT !.k.tx = MergeTapos(transactionHeader(refBlock, w.k.cfg.expireSeconds), @)])

\* generateTapos comparing with < where the code has <=.
GenerateTaposBlock_StrictBelow(w) ==
    LET info == w.k.info
        taposBlockNumber ==
            IF w.k.cfg.useLastIrreversible THEN info.last_irreversible_block_num
            ELSE info.head_block_num - w.k.cfg.blocksBehind.v
        w1 == [w EXCEPT !.k.refNum = taposBlockNumber]
    IN  IF taposBlockNumber < info.last_irreversible_block_num
        THEN Await(w1, "get_block", Ev("get_block", "", taposBlockNumber))
        ELSE Await(w1, "header_state", Ev("get_block_header_state", "", taposBlockNumber))

\* Lines 485-491 and 504.
GenerateTaposBlock(w) ==
    LET info == w.k.info
        taposBlockNumber ==
            IF w.k.cfg.useLastIrreversible THEN info.last_irreversible_block_num
            ELSE info.head_block_num - w.k.cfg.blocksBehind.v
        w1 == [w EXCEPT !.k.refNum = taposBlockNumber]
    IN  IF taposBlockNumber <= info.last_irreversible_block_num
        THEN Await(w1, "get_block", Ev("get_block", "", taposBlockNumber))
        ELSE Await(w1, "header_state", Ev("get_block_header_state", "", taposBlockNumber))

\* generateTapos that fetches the info whether or not it was given one.
GenerateTapos_AlwaysGetInfo(w) ==
    Await(w, "tapos_info", Ev("get_info", "", 0))

\* Lines 481-483.
GenerateTapos(w) ==
    IF w.k.info = NoInfo
    THEN Await(w, "tapos_info", Ev("get_info", "", 0))
    ELSE GenerateTaposBlock(w)

\* Lines 315-317.
TransactTapos(w) ==
    IF /\ IsNumber(w.k.cfg.blocksBehind) \/ w.k.cfg.useLastIrreversible
       /\ Truthy(w.k.cfg.expireSeconds)
    THEN GenerateTapos(w)
    ELSE TransactResolveAbis(w)

\* transact without the check of line 306.
TransactEnter_NoExclusiveCheck(w) ==
    IF w.chainId = ""
    THEN Await(w, "get_info", Ev("get_info", "", 0))
    ELSE TransactTapos(w)

\* transact that looks the chain id up on every call.
TransactEnter_AlwaysGetInfo(w) ==
    IF IsNumber(w.k.cfg.blocksBehind) /\ w.k.cfg.useLastIrreversible
    THEN Throw(w, Err("Use either blocksBehind or useLastIrreversible"))
    ELSE Await(w, "get_info", Ev("get_info", "", 0))

\* Lines 306-313.
TransactEnter(w) ==
    IF IsNumber(w.k.cfg.blocksBehind) /\ w.k.cfg.useLastIrreversible
    THEN Throw(w, Err("Use either blocksBehind or useLastIrreversible"))
    ELSE IF w.chainId = ""
    THEN Await(w, "get_info", Ev("get_info", "", 0))
    ELSE TransactTapos(w)

(***************************************************************************)
(* query, from its last stage back to its first.                           *)
(***************************************************************************)
SendTransactionPath == "/v1/chain/send_transaction"

\* What the raw submission endpoint may answer, as response.json() gives it:
\* an error document, the trace of the action, or a document without trace.
QueryJsons ==
    {[code |-> 500, traced |-> FALSE, return_value |-> ""],
     [code |-> 0, traced |-> TRUE, return_value |-> "hex"],
     [code |-> 0, traced |-> FALSE, return_value |-> ""]}

\* new RpcError(json)
RpcError(json) == [prefix |-> <<"RpcError">>, msg |-> "node-reported error"]

\* ser.deserializeAnyvarShort / ser.deserializeAnyvar of the return value.
deserializeAnyvar(short, hex) ==
    [anyvar |-> IF short THEN "short" ELSE "verbose", of |-> hex]

\* query that decodes whatever the response's code is.
QueryDecode_IgnoreCode(w, json) ==
    LET w1 == [w EXCEPT !.k.response = json]
    IN  IF ~json.traced THEN Throw(w1, Err("TypeError"))
        ELSE Return(w1, deserializeAnyvar(w.k.short, json.return_value))

\* Lines 431-445: the JSON of the response is checked and decoded.
QueryDecode(w, json) ==
    LET w1 == [w EXCEPT !.k.response = json]
    IN  IF json.code # 0 THEN Throw(w1, RpcError(json))
        ELSE IF ~json.traced THEN Throw(w1, Err("TypeError"))
        ELSE Return(w1, deserializeAnyvar(w.k.short, json.return_value))

\* Lines 422-430: the raw POST.
QueryPost(w, signatures) ==
    Await([w EXCEPT !.k.sent =
               [signatures |-> signatures,
                compression |-> 0,
                serializedContextFreeData |-> NullBytes,
                serializedTransaction |-> w.k.args.serializedTransaction]],
          "q_post", Ev("fetchBuiltin", SendTransactionPath, 0))

\* Lines 411-417.
QuerySignRequest(w, requiredKeys) ==
    Await([w EXCEPT !.k.signReq =
               [chainId |-> w.chainId,
                requiredKeys |-> requiredKeys,
                serializedTransaction |-> w.k.args.serializedTransaction,
                serializedContextFreeData |-> NullBytes,
                abis |-> w.k.abis]],
          "q_sign", Ev("sign", "", 0))

\* Lines 403-410 and 420.
QuerySign(w) ==
    IF w.k.cfg.sign
    THEN IF ~w.k.cfg.requiredKeys.def
         THEN Await(w, "q_available_keys", Ev("getAvailableKeys", "", 0))
         ELSE QuerySignRequest(w, w.k.cfg.requiredKeys.keys)
    ELSE QueryPost(w, <<>>)

\* Lines 402-403, getTransactionAbis having resolved.
QueryAssemble(w) ==
    QuerySign([w EXCEPT !.k.abis = AbisOf(w.k.tasks),
                        !.k.args = [NoArgs EXCEPT
                            !.serializedTransaction = serializeTransaction(w.k.tx)],
                        !.k.log = Append(@, Ev("assemble", "", 0))])

\* Lines 391-400: the transaction of one queryit action.
QueryExpireSeconds == 60 * 30
QueryTransaction(account, refBlock) ==
    LET header == transactionHeader(refBlock, Num(QueryExpireSeconds))
    IN  [expiration |-> header.expiration,
         ref_block_num |-> header.ref_block_num,
         ref_block_prefix |-> header.ref_block_prefix,
         context_free_actions |-> <<>>,
         actions |-> <<[account |-> account, name |-> "queryit",
                        data |-> [form |-> "hex", codec |-> 0]]>>,
         context_free_data |-> <<>>]

\* Lines 388-402, get_block having answered refBlock.
QueryResolveAbis(w, refBlock) ==
    LET transaction == QueryTransaction(w.k.account, refBlock)
        w1 == getTransactionAbisEnter([w EXCEPT !.k.tx = transaction], transaction, FALSE)
    IN  IF AllOk(w1.k.tasks) THEN QueryAssemble(w1) ELSE w1

(***************************************************************************)
(* serializeActions and deserializeActions called on their own: one        *)
(* getContract per action, all started together (Promise.all over map).    *)
(* Task i of the call is the lookup of action i.                           *)
(***************************************************************************)
\* ser.deserializeAction: the data decoded by the contract's codec.
deserializeAction(contract, action) ==
    [action EXCEPT !.data = [form |-> "json", codec |-> contract.actions]]

\* Lines 243-245 and 256-258: the conversion of one action.
ConvertAction(op, contract, action) ==
    IF op = "serializeActions" THEN serializeAction(contract, action)
    ELSE deserializeAction(contract, action)

\* The lookups of the call that have answered.
Answered(tasks) == {j \in 1..Len(tasks) : tasks[j].st # "pending"}

\* A Promise.all that lists its results in the order they arrive.
ConvertAt_ArrivalOrder(w, i, conv) ==
    [w EXCEPT !.k.tx.actions[Cardinality(Answered(w.k.tasks))] = conv]

\* The map callback of action i returns conv: it is element i of the result.
ConvertAt(w, i, conv) == [w EXCEPT !.k.tx.actions[i] = conv]

\* Lines 239-246 for action i up to its first suspension at a remote call:
\* a wasm action is returned as it is; a cached contract, or the contract of
\* a cached ABI, converts the action; else getRawAbi is called.
ConvertEnter(w, i) ==
    LET action == w.k.arg.actions[i]
        a == action.account
    IN  IF IsWasm(a)
        THEN [w EXCEPT !.k.tasks = Append(@, NewTask(a, "skip", 0, NoCachedAbi))]
        ELSE IF a \in DOMAIN w.contracts
        THEN ConvertAt([w EXCEPT !.k.tasks = Append(@, NewTask(a, "hit", 0, NoCachedAbi))],
                       i, ConvertAction(w.k.op, w.contracts[a], action))
        ELSE LET w1 == getCachedAbiEnter(w, a, FALSE)
                 contract == ContractOf(w1.k.tasks[i].res.abi)
             IN  IF TaskOk(w1.k.tasks[i])
                 THEN ConvertAt([w1 EXCEPT !.contracts = MapSet(@, a, contract)],
                                i, ConvertAction(w.k.op, contract, action))
                 ELSE w1

RECURSIVE ConvertEnterFrom(_, _)
ConvertEnterFrom(w, i) ==
    IF i > Len(w.k.arg.actions) THEN w
    ELSE ConvertEnterFrom(ConvertEnter(w, i), i + 1)

\* Promise.all resolves when no lookup is outstanding.
ConvertFinish(w) ==
    IF Answered(w.k.tasks) = 1..Len(w.k.tasks) THEN Return(w, w.k.tx.actions) ELSE w

\* Lines 180-188 for an action whose call has already failed: getContract
\* still stores the contract.
ConvertLate(w, i) ==
    [w EXCEPT !.contracts = MapSet(@, w.k.tasks[i].acct, ContractOf(w.k.tasks[i].res.abi))]

\* Lines 180-188 and 243-245: the fetch of action i has answered abi.
ConvertResume(w, i) ==
    LET a == w.k.tasks[i].acct
        contract == ContractOf(w.k.tasks[i].res.abi)
    IN  ConvertFinish(ConvertAt([w EXCEPT !.contracts = MapSet(@, a, contract)],
                                i, ConvertAction(w.k.op, contract, w.k.arg.actions[i])))

(***************************************************************************)
(* What the caller of a getCachedAbi task does when the task settles.      *)
(***************************************************************************)
\* A transact that goes on to sign when an ABI fetch has failed.
AfterTask_SignAnyway(w, i) ==
    LET t == w.k.tasks[i]
    IN  IF w.k.pc = "done" THEN w
        ELSE IF ~TaskOk(t)
        THEN IF w.k.op = "transact" THEN TransactSign(w) ELSE Throw(w, t.err)
        ELSE CASE w.k.op = "getCachedAbi" -> Return(w, t.res)
               [] w.k.op = "getAbi" -> Return(w, t.res.abi)
               [] w.k.op = "getContract" -> getContractFinish(w, t.acct, t.res.abi)
               [] w.k.op = "getTransactionAbis" ->
                      IF AllOk(w.k.tasks) THEN Return(w, AbisOf(w.k.tasks)) ELSE w
               [] w.k.op = "transact" ->
                      IF AllOk(w.k.tasks) THEN TransactAssemble(w) ELSE w

AfterTask(w, i) ==
    LET t == w.k.tasks[i]
    IN  IF w.k.pc = "done"
        THEN IF w.k.op \in {"serializeActions", "deserializeActions"} /\ TaskOk(t)
             THEN ConvertLate(w, i)
             ELSE w
        ELSE IF ~TaskOk(t) THEN Throw(w, t.err)
        ELSE CASE w.k.op = "getCachedAbi" -> Return(w, t.res)
               [] w.k.op = "getAbi" -> Return(w, t.res.abi)
               [] w.k.op = "getContract" -> getContractFinish(w, t.acct, t.res.abi)
               [] w.k.op = "getTransactionAbis" ->
                      IF AllOk(w.k.tasks) THEN Return(w, AbisOf(w.k.tasks)) ELSE w
               [] w.k.op = "transact" ->
                      IF AllOk(w.k.tasks) THEN TransactAssemble(w) ELSE w
               [] w.k.op = "query" ->
                      IF AllOk(w.k.tasks) THEN QueryAssemble(w) ELSE w
               [] w.k.op \in {"serializeActions", "deserializeActions"} ->
                      ConvertResume(w, i)

(***************************************************************************)
(* Inputs.                                                                 *)
(***************************************************************************)
Action(a) == [account |-> a, name |-> "transfer", data |-> [form |-> "json", codec |-> 0]]

RECURSIVE SeqsOfLen(_, _)
SeqsOfLen(S, n) ==
    IF n = 0 THEN {<<>>}
    ELSE {Append(q, x) : q \in SeqsOfLen(S, n - 1), x \in S}

ActionLists == UNION {SeqsOfLen({Action(a) : a \in Accounts}, n) : n \in 1..MaxActions}

NoTaposFields == [expiration |-> Undef, ref_block_num |-> Undef, ref_block_prefix |-> Undef]
CompleteTaposFields == [expiration |-> Num(2000), ref_block_num |-> Num(5),
                        ref_block_prefix |-> Num(77)]
BadTaposFields == [expiration |-> Num(2000), ref_block_num |-> Str,
                   ref_block_prefix |-> Num(77)]
\* Only the expiration supplied; and an expiration supplied as null.
PartialTaposFields == [expiration |-> Num(2000), ref_block_num |-> Undef,
                       ref_block_prefix |-> Undef]
NullTaposFields == [expiration |-> Null, ref_block_num |-> Undef,
                    ref_block_prefix |-> Undef]
TaposFields == {NoTaposFields, CompleteTaposFields, BadTaposFields,
                PartialTaposFields, NullTaposFields}

Tx(f, cfa, acts, cfd) ==
    [expiration |-> f.expiration, ref_block_num |-> f.ref_block_num,
     ref_block_prefix |-> f.ref_block_prefix,
     context_free_actions |-> cfa, actions |-> acts, context_free_data |-> cfd]

SuppliedKeys == [def |-> TRUE, keys |-> {"PUB_K3"}]

\* The TAPOS selection of a config, and the rest of it.
TaposConfigs ==
    [blocksBehind : {Undef, Num(0), Num(3)}, useLastIrreversible : BOOLEAN,
     expireSeconds : {Undef, Num(0), Num(30)}]
FlowConfigs ==
    [broadcast : BOOLEAN, sign : BOOLEAN, requiredKeys : {NoKeys, SuppliedKeys},
     compression : BOOLEAN]
PlainFlowConfigs == {f \in FlowConfigs : ~f.compression /\ ~f.requiredKeys.def}
BehindConfig == [blocksBehind |-> Num(3), useLastIrreversible |-> FALSE,
                 expireSeconds |-> Num(30)]

Cfg(t, f) ==
    [broadcast |-> f.broadcast, sign |-> f.sign, requiredKeys |-> f.requiredKeys,
     compression |-> f.compression, blocksBehind |-> t.blocksBehind,
     useLastIrreversible |-> t.useLastIrreversible, expireSeconds |-> t.expireSeconds]

\* The transactions of the transact calls: one action, with every kind of
\* caller-supplied TAPOS fields; and every action list, without.
OneActionTransactions ==
    {Tx(f, <<>>, <<Action("eosio.token")>>, <<>>) : f \in TaposFields}
PlainTransactions ==
    {Tx(NoTaposFields, <<>>, acts, <<>>) : acts \in ActionLists}
    \cup {Tx(NoTaposFields, <<Action("eosio.token")>>, <<Action("returnvalue")>>, <<"cfd">>)}

\* The transact calls: every TAPOS selection on the one-action transactions,
\* and every signing, compression and broadcast choice on every action list.
TransactInputs ==
    {[tx |-> tx, cfg |-> Cfg(t, f)] :
        tx \in OneActionTransactions, t \in TaposConfigs, f \in PlainFlowConfigs}
    \cup {[tx |-> tx, cfg |-> Cfg(BehindConfig, f)] :
        tx \in PlainTransactions, f \in FlowConfigs}

\* The transact and getTransactionAbis calls made beside the cache operations.
CacheTransactions ==
    {Tx(CompleteTaposFields, <<>>, acts, <<>>) :
        acts \in SeqsOfLen({Action(a) : a \in Accounts}, MaxActions)}
CacheConfig == Cfg([blocksBehind |-> Undef, useLastIrreversible |-> FALSE,
                    expireSeconds |-> Undef],
                   [broadcast |-> FALSE, sign |-> FALSE, requiredKeys |-> NoKeys,
                    compression |-> FALSE])

AvailableKeys == {"PUB_K1", "PUB_K2"}
RequiredKeySets == {{"PUB_K1"}, {"PUB_K1", "PUB_K2"}}

\* What signatureProvider.sign may answer to a request.
SignResponses(req) ==
    {[signatures |-> <<"SIG">>,
      serializedTransaction |-> [req.serializedTransaction EXCEPT !.encoder = e],
      serializedContextFreeData |-> req.serializedContextFreeData,
      compression |-> 0] : e \in {"api", "signer"}}

\* What send_transaction may answer for the actions submitted.
Trace(action, rv) ==
    [act |-> [account |-> action.account, name |-> action.name, data |-> "hex"],
     has_return_value |-> rv,
     return_value |-> IF rv THEN "hex" ELSE ""]
SendResults(actions) ==
    {NoResult}
    \cup {[processed |-> TRUE,
           action_traces |-> [i \in 1..Len(actions) |-> Trace(actions[i], rv)]] :
            rv \in BOOLEAN}

\* Whether the wasm ABI's decode hooks of a trace return (TRUE) or throw;
\* a hook that is not called counts as TRUE.
Hooks == [args : BOOLEAN, ret : BOOLEAN]
HookChoices(result) ==
    {h \in [1..Len(result.action_traces) -> Hooks] :
        \A i \in 1..Len(result.action_traces) :
            LET at == result.action_traces[i]
            IN  /\ ~IsWasm(at.act.account) => h[i].args
                /\ ~(IsWasm(at.act.account) /\ at.has_return_value) => h[i].ret}

\* Enrichment that assigns the decoded fields although the hook threw.
EnrichTrace_AssignOnThrow(at, h) ==
    IF ~(at.act.account \in wasmAbis.accounts) THEN at
    ELSE LET at1 == [at EXCEPT !.act.name = "long_name",
                               !.act.data = IF h.args THEN "json" ELSE "undefined"]
         IN  IF at1.has_return_value /\ h.ret
             THEN [at1 EXCEPT !.act.name = "long_name", !.return_value = "json"]
             ELSE at1

\* Lines 356-373 for one action trace.
EnrichTrace(at, h) ==
    IF ~(at.act.account \in wasmAbis.accounts) THEN at
    ELSE LET at1 == IF h.args
                    THEN [at EXCEPT !.act.name = "long_name", !.act.data = "json"]
                    ELSE at
         IN  IF at1.has_return_value /\ h.ret
             THEN [at1 EXCEPT !.act.name = "long_name", !.return_value = "json"]
             ELSE at1

\* Lines 354-376.
Enrich(result, hooks) ==
    IF wasmAbis.present /\ result.processed
    THEN [result EXCEPT !.action_traces =
            [i \in 1..Len(@) |-> EnrichTrace(@[i], hooks[i])]]
    ELSE result

(***************************************************************************)
(* Actions: the calls made on the Api.                                     *)
(***************************************************************************)
NewCall(c, op) == [World(c) EXCEPT !.k = [IdleCall EXCEPT !.op = op, !.pc = "fetch"]]

\* A call takes the lowest idle slot.
FreeSlot(c) ==
    /\ calls[c].op = "idle"
    /\ \A d \in Calls : d < c => calls[d].op # "idle"

AllIdle == \A c \in Calls : calls[c].op = "idle"

GetCachedAbiCall(c, a, reload) ==
    /\ FreeSlot(c)
    /\ LET w0 == [NewCall(c, "getCachedAbi") EXCEPT !.k.account = a, !.k.reload = reload]
           w1 == getCachedAbiEnter(w0, a, reload)
       IN  Commit(c, IF TaskOk(w1.k.tasks[1]) THEN AfterTask(w1, 1) ELSE w1)

\* Lines 151-153.
GetAbiCall(c, a, reload) ==
    /\ FreeSlot(c)
    /\ LET w0 == [NewCall(c, "getAbi") EXCEPT !.k.account = a, !.k.reload = reload]
           w1 == getCachedAbiEnter(w0, a, reload)
       IN  Commit(c, IF TaskOk(w1.k.tasks[1]) THEN AfterTask(w1, 1) ELSE w1)

\* Lines 176-180.
GetContractCall(c, a, reload) ==
    /\ FreeSlot(c)
    /\ LET w0 == [NewCall(c, "getContract") EXCEPT !.k.account = a, !.k.reload = reload]
           w1 == getCachedAbiEnter(w0, a, reload)
       IN  Commit(c, IF ~reload /\ a \in DOMAIN contracts
                     THEN Return(w0, contracts[a])
                     ELSE IF TaskOk(w1.k.tasks[1]) THEN AfterTask(w1, 1) ELSE w1)

\* Lines 156-173.
GetTransactionAbisCall(c, tx, reload) ==
    /\ FreeSlot(c)
    /\ LET w0 == [NewCall(c, "getTransactionAbis") EXCEPT
                      !.k.arg = tx, !.k.tx = tx, !.k.reload = reload]
           w1 == getTransactionAbisEnter(w0, tx, reload)
       IN  Commit(c, IF AllOk(w1.k.tasks) THEN Return(w1, AbisOf(w1.k.tasks)) ELSE w1)

\* Lines 300-313.
TransactCall(c, tx, cfg) ==
    /\ FreeSlot(c)
    /\ Commit(c, TransactEnter([NewCall(c, "transact") EXCEPT
                                    !.k.arg = tx, !.k.tx = tx, !.k.cfg = cfg,
                                    !.k.requiredKeys = cfg.requiredKeys]))

(***************************************************************************)
(* Actions: a remote call answers and the call that awaits it resumes.     *)
(***************************************************************************)
\* get_info answers transact, lines 311-313.
GetInfoDone(c) ==
    /\ calls[c].pc = "get_info"
    /\ \/ Commit(c, Throw(World(c), Err("get_info")))
       \/ \E info \in Infos :
            Commit(c, TransactTapos([World(c) EXCEPT !.k.info = info,
                                                     !.chainId = info.chain_id]))

\* get_info answers generateTapos, lines 482-483.
TaposInfoDone(c) ==
    /\ calls[c].pc = "tapos_info"
    /\ \/ Commit(c, Throw(World(c), Err("get_info")))
       \/ \E info \in Infos :
            Commit(c, GenerateTaposBlock([World(c) EXCEPT !.k.info = info]))

\* get_block answers generateTapos (line 490) or tryGetBlockHeaderState (506).
GetBlockDone(c) ==
    /\ calls[c].pc \in {"get_block", "fallback_block"}
    /\ \/ Commit(c, Throw(World(c), Err("get_block")))
       \/ Commit(c, GenerateTaposMerge(World(c), Block(calls[c].refNum)))

\* get_block_header_state answers tryGetBlockHeaderState, lines 503-507.
HeaderStateDone(c) ==
    /\ calls[c].pc = "header_state"
    /\ \/ Commit(c, Await(World(c), "fallback_block", Ev("get_block", "", calls[c].refNum)))
       \/ Commit(c, GenerateTaposMerge(World(c), Block(calls[c].refNum)))

\* getRawAbi answers task i of call c.
FetchDone(c, i) ==
    /\ i \in 1..Len(calls[c].tasks)
    /\ calls[c].tasks[i].st = "pending"
    /\ LET a == calls[c].tasks[i].acct
       IN  \/ Commit(c, AfterTask(getCachedAbiResume(World(c), i, [fail |-> TRUE, raw |-> NoRaw]), i))
           \/ \E raw \in RawAbis(calls[c].tasks[i].lo, chainAbi[a]) :
                Commit(c, AfterTask(getCachedAbiResume(World(c), i, [fail |-> FALSE, raw |-> raw]), i))

\* getAvailableKeys answers, lines 340-341.
AvailableKeysDone(c) ==
    /\ calls[c].pc = "available_keys"
    /\ \/ Commit(c, Throw(World(c), Err("getAvailableKeys")))
       \/ Commit(c, Await([World(c) EXCEPT !.k.keysReq =
                              [transaction |-> calls[c].tx, availableKeys |-> AvailableKeys]],
                          "required_keys", Ev("getRequiredKeys", "", 0)))

\* getRequiredKeys answers, lines 341-350.
RequiredKeysDone(c) ==
    /\ calls[c].pc = "required_keys"
    /\ \/ Commit(c, Throw(World(c), Err("getRequiredKeys")))
       \/ \E keys \in RequiredKeySets :
            Commit(c, TransactSignRequest(
                        [World(c) EXCEPT !.k.requiredKeys = [def |-> TRUE, keys |-> keys]],
                        keys))

\* sign answers, and only its signatures are put into the payload assembled
\* before.
SignDone_KeepAssembledBytes(c) ==
    /\ calls[c].pc = "sign"
    /\ \/ Commit(c, Throw(World(c), Err("sign")))
       \/ \E rsp \in SignResponses(calls[c].signReq) :
            Commit(c, TransactBroadcast([World(c) EXCEPT
                                            !.k.signResponse = rsp,
                                            !.k.args.signatures = rsp.signatures]))

\* sign answers, with a second request after a first failure.
SignDone_RetryOnce(c) ==
    /\ calls[c].pc = "sign"
    /\ \/ IF Len(SelectSeq(calls[c].log, LAMBDA e : e.op = "sign")) < 2
          THEN Commit(c, Await(World(c), "sign", Ev("sign", "", 0)))
          ELSE Commit(c, Throw(World(c), Err("sign")))
       \/ \E rsp \in SignResponses(calls[c].signReq) :
            Commit(c, TransactBroadcast([World(c) EXCEPT !.k.args = rsp]))

\* sign answers, lines 344-352.
SignDone(c) ==
    /\ calls[c].pc = "sign"
    /\ \/ Commit(c, Throw(World(c), Err("sign")))
       \/ \E rsp \in SignResponses(calls[c].signReq) :
            Commit(c, TransactBroadcast([World(c) EXCEPT !.k.signResponse = rsp,
                                                         !.k.args = rsp]))

\* send_transaction answers, lines 353-376.
SendDone(c) ==
    /\ calls[c].pc = "send"
    /\ \/ Commit(c, Throw(World(c), Err("send_transaction")))
       \/ \E result \in SendResults(calls[c].tx.actions) :
          \E hooks \in HookChoices(result) :
            Commit(c, Return([World(c) EXCEPT !.k.response = result, !.k.hooks = hooks],
                             Enrich(result, hooks)))

\* Lines 381-385: query is called.
QueryConfigs == {f \in FlowConfigs : ~f.broadcast /\ ~f.compression}
QueryCall(c, account, short, cfg) ==
    /\ FreeSlot(c)
    /\ Commit(c, Await([NewCall(c, "query") EXCEPT
                            !.k.account = account, !.k.short = short,
                            !.k.cfg = [NoCfg EXCEPT !.sign = cfg.sign,
                                                    !.requiredKeys = cfg.requiredKeys],
                            !.k.requiredKeys = cfg.requiredKeys],
                       "q_info", Ev("get_info", "", 0)))

\* get_info answers query, lines 385-387.
QueryInfoDone(c) ==
    /\ calls[c].pc = "q_info"
    /\ \/ Commit(c, Throw(World(c), Err("get_info")))
       \/ \E info \in Infos :
            Commit(c, Await([World(c) EXCEPT
                                !.k.info = info,
                                !.k.refNum = info.last_irreversible_block_num],
                            "q_block",
                            Ev("get_block", "", info.last_irreversible_block_num)))

\* get_block answers query, lines 387-402.
QueryBlockDone(c) ==
    /\ calls[c].pc = "q_block"
    /\ \/ Commit(c, Throw(World(c), Err("get_block")))
       \/ Commit(c, QueryResolveAbis(World(c), Block(calls[c].refNum)))

\* getAvailableKeys answers query, lines 407-408.
QueryAvailableKeysDone(c) ==
    /\ calls[c].pc = "q_available_keys"
    /\ \/ Commit(c, Throw(World(c), Err("getAvailableKeys")))
       \/ Commit(c, Await([World(c) EXCEPT !.k.keysReq =
                              [transaction |-> calls[c].tx, availableKeys |-> AvailableKeys]],
                          "q_required_keys", Ev("getRequiredKeys", "", 0)))

\* getRequiredKeys answers query, lines 408-417.
QueryRequiredKeysDone(c) ==
    /\ calls[c].pc = "q_required_keys"
    /\ \/ Commit(c, Throw(World(c), Err("getRequiredKeys")))
       \/ \E keys \in RequiredKeySets :
            Commit(c, QuerySignRequest(
                        [World(c) EXCEPT !.k.requiredKeys = [def |-> TRUE, keys |-> keys]],
                        keys))

\* sign answers query, lines 411-430: only the signatures are kept.
QuerySignDone(c) ==
    /\ calls[c].pc = "q_sign"
    /\ \/ Commit(c, Throw(World(c), Err("sign")))
       \/ \E rsp \in SignResponses(calls[c].signReq) :
            Commit(c, QueryPost(World(c), rsp.signatures))

\* The raw POST answers and its body is read, lines 422-445.
QueryPostDone(c) ==
    /\ calls[c].pc = "q_post"
    /\ \/ Commit(c, Throw(World(c), Err("fetch")))
       \/ \E json \in QueryJsons : Commit(c, QueryDecode(World(c), json))

\* The actions passed to serializeActions (data as JSON) and to
\* deserializeActions (data as hex): action i of a list has the i-th name.
ActionNames == <<"transfer", "issue", "open", "close">>
ConvertInputs(form) ==
    UNION {{[i \in 1..n |-> [account |-> accts[i], name |-> ActionNames[i],
                             data |-> [form |-> form, codec |-> 0]]] :
                accts \in [1..n -> Accounts]} : n \in 1..MaxActions}

\* Lines 237-238 and 250-251: serializeActions or deserializeActions is called.
ConvertActionsCall(c, op, actions) ==
    /\ FreeSlot(c)
    /\ LET tx == Tx(NoTaposFields, <<>>, actions, <<>>)
           w0 == [NewCall(c, op) EXCEPT !.k.arg = tx, !.k.tx = tx]
       IN  Commit(c, ConvertFinish(ConvertEnterFrom(w0, 1)))

\* The caller has its answer and every fetch the call started has settled.
Retire(c) ==
    /\ calls[c].pc = "done"
    /\ \A i \in 1..Len(calls[c].tasks) : calls[c].tasks[i].st # "pending"
    /\ calls' = [calls EXCEPT ![c] = IdleCall]
    /\ UNCHANGED <<chainId, wasmAbis, cachedAbis, contracts, chainAbi>>

\* The account's contract owner publishes a new ABI revision.
SetAbi(a) ==
    /\ chainAbi[a] < MaxVer
    /\ chainAbi' = [chainAbi EXCEPT ![a] = @ + 1]
    /\ UNCHANGED <<chainId, wasmAbis, cachedAbis, contracts, calls>>

(***************************************************************************)
(* Specifications.                                                         *)
(***************************************************************************)
Init ==
    /\ chainId \in {"", "cid-ctor"}
    /\ wasmAbis \in {[present |-> FALSE, accounts |-> {}],
                     [present |-> TRUE, accounts |-> {"returnvalue"}]}
    /\ cachedAbis = <<>>
    /\ contracts = <<>>
    /\ chainAbi = [a \in Accounts |-> 1]
    /\ calls = [c \in Calls |-> IdleCall]

Resume(c) ==
    \/ GetInfoDone(c)
    \/ TaposInfoDone(c)
    \/ GetBlockDone(c)
    \/ HeaderStateDone(c)
    \/ \E i \in 1..MaxActions : FetchDone(c, i)
    \/ AvailableKeysDone(c)
    \/ RequiredKeysDone(c)
    \/ SignDone(c)
    \/ SendDone(c)
    \/ Retire(c)

\* transact calls made one after the other.
Next ==
    \E c \in Calls :
        \/ AllIdle /\ \E in \in TransactInputs : TransactCall(c, in.tx, in.cfg)
        \/ Resume(c)

Spec == Init /\ [][Next]_vars

\* The cache operations and transact, one after the other, while the
\* accounts publish new ABI revisions.
NextCache ==
    \/ \E c \in Calls :
        \/ AllIdle /\ \E a \in Accounts, reload \in BOOLEAN : GetCachedAbiCall(c, a, reload)
        \/ AllIdle /\ \E a \in Accounts, reload \in BOOLEAN : GetAbiCall(c, a, reload)
        \/ AllIdle /\ \E a \in Accounts, reload \in BOOLEAN : GetContractCall(c, a, reload)
        \/ AllIdle /\ \E tx \in CacheTransactions, reload \in BOOLEAN :
                        GetTransactionAbisCall(c, tx, reload)
        \/ AllIdle /\ \E tx \in CacheTransactions : TransactCall(c, tx, CacheConfig)
        \/ GetInfoDone(c)
        \/ \E i \in 1..MaxActions : FetchDone(c, i)
        \/ Retire(c)
    \/ \E a \in Accounts : SetAbi(a)

SpecCache == Init /\ [][NextCache]_vars

\* query calls made one after the other.
NextQuery ==
    \E c \in Calls :
        \/ AllIdle /\ \E a \in Accounts, short \in BOOLEAN, cfg \in QueryConfigs :
                        QueryCall(c, a, short, cfg)
        \/ QueryInfoDone(c)
        \/ QueryBlockDone(c)
        \/ \E i \in 1..MaxActions : FetchDone(c, i)
        \/ QueryAvailableKeysDone(c)
        \/ QueryRequiredKeysDone(c)
        \/ QuerySignDone(c)
        \/ QueryPostDone(c)
        \/ Retire(c)

SpecQuery == Init /\ [][NextQuery]_vars

\* deflate of a byte array: the compressed form of exactly these bytes.
deflateSerializedArray(serializedArray) == [deflated |-> TRUE, of |-> serializedArray]

\* new Uint8Array(0)
EmptyBytes == [isNull |-> FALSE, count |-> 0, data |-> <<>>]

\* The payloads handed to the push operations: assembled from a transaction
\* with or without context-free data, with or without the compression flag,
\* unsigned or signed.
PushPayloads ==
    {[PushArgs(tx, compression) EXCEPT !.signatures = signatures] :
        tx \in {Tx(CompleteTaposFields, <<>>, <<Action("eosio.token")>>, <<>>),
                Tx(CompleteTaposFields, <<Action("eosio.token")>>,
                   <<Action("returnvalue")>>, <<"cfd">>)},
        compression \in BOOLEAN,
        signatures \in {<<>>, <<"SIG">>}}

PushResult == [processed |-> TRUE, action_traces |-> <<>>]

\* Lines 448-457: the request has the three destructured fields only, its
\* compression being left out.
PushSignedTransactionCall(c, payload) ==
    /\ FreeSlot(c)
    /\ Commit(c, Await([NewCall(c, "pushSignedTransaction") EXCEPT
                            !.k.args = payload,
                            !.k.sent = [NoArgs EXCEPT
                                !.signatures = payload.signatures,
                                !.serializedTransaction = payload.serializedTransaction,
                                !.serializedContextFreeData =
                                    payload.serializedContextFreeData]],
                       "push", Ev("push_transaction", "", 0)))

\* Lines 459-472.
PushCompressedSignedTransactionCall(c, payload) ==
    /\ FreeSlot(c)
    /\ LET compressedSerializedTransaction ==
               deflateSerializedArray(payload.serializedTransaction)
           compressedSerializedContextFreeData ==
               deflateSerializedArray(IF payload.serializedContextFreeData.isNull
                                      THEN EmptyBytes
                                      ELSE payload.serializedContextFreeData)
       IN  Commit(c, Await([NewCall(c, "pushCompressedSignedTransaction") EXCEPT
                                !.k.args = payload,
                                !.k.sent =
                                    [signatures |-> payload.signatures,
                                     compression |-> 1,
                                     serializedTransaction |->
                                         compressedSerializedTransaction,
                                     serializedContextFreeData |->
                                         compressedSerializedContextFreeData]],
                           "push", Ev("push_transaction", "", 0)))

\* push_transaction answers, lines 451 and 466: its result or its error is
\* the call's.
PushDone(c) ==
    /\ calls[c].pc = "push"
    /\ \/ Commit(c, Throw(World(c), Err("push_transaction")))
       \/ Commit(c, Return(World(c), PushResult))

\* Payloads pushed, also while another push is in flight.
NextPush ==
    \E c \in Calls :
        \/ \E payload \in PushPayloads : PushSignedTransactionCall(c, payload)
        \/ \E payload \in PushPayloads : PushCompressedSignedTransactionCall(c, payload)
        \/ PushDone(c)
        \/ Retire(c)

SpecPush == Init /\ [][NextPush]_vars

\* Calls on one account made while others are in flight: their fetches
\* overlap and answer in any order.
RaceAccount == "eosio.token"
RaceTransaction == Tx(CompleteTaposFields, <<>>, <<Action(RaceAccount)>>, <<>>)

InitRace ==
    /\ chainId = "cid-ctor"
    /\ wasmAbis = [present |-> FALSE, accounts |-> {}]
    /\ cachedAbis = <<>>
    /\ contracts = <<>>
    /\ chainAbi = [a \in Accounts |-> 1]
    /\ calls = [c \in Calls |-> IdleCall]

NextRace ==
    \/ \E c \in Calls :
        \/ \E reload \in BOOLEAN : GetCachedAbiCall(c, RaceAccount, reload)
        \/ GetContractCall(c, RaceAccount, FALSE)
        \/ TransactCall(c, RaceTransaction, CacheConfig)
        \/ \E i \in 1..MaxActions : FetchDone(c, i)
        \/ Retire(c)
    \/ SetAbi(RaceAccount)

SpecRace == InitRace /\ [][NextRace]_vars

\* serializeActions and deserializeActions calls made one after the other,
\* while the accounts publish new ABI revisions.
NextConvert ==
    \/ \E c \in Calls :
        \/ AllIdle /\ \E actions \in ConvertInputs("json") :
                        ConvertActionsCall(c, "serializeActions", actions)
        \/ AllIdle /\ \E actions \in ConvertInputs("hex") :
                        ConvertActionsCall(c, "deserializeActions", actions)
        \/ \E i \in 1..MaxActions : FetchDone(c, i)
        \/ Retire(c)
    \/ \E a \in Accounts : SetAbi(a)

SpecConvert == Init /\ [][NextConvert]_vars

(***************************************************************************)
(* Properties.                                                             *)
(***************************************************************************)
Has(k, op) == \E i \in 1..Len(k.log) : k.log[i].op = op
BlockFetches(k) ==
    SelectSeq(k.log, LAMBDA e : e.op \in {"get_block", "get_block_header_state"})
AbiFetches(k, a) == SelectSeq(k.log, LAMBDA e : e.op = "getRawAbi" /\ e.acct = a)
Pending(k) == \E i \in 1..Len(k.tasks) : k.tasks[i].st = "pending"
SigningOps == {"getAvailableKeys", "getRequiredKeys", "sign"}

BothTaposKnobs(cfg) == IsNumber(cfg.blocksBehind) /\ cfg.useLastIrreversible
NoTaposSelection(cfg) ==
    /\ ~IsNumber(cfg.blocksBehind)
    /\ ~cfg.useLastIrreversible
    /\ cfg.expireSeconds = Undef

\* The transaction as the caller passed it lacks a TAPOS field.
LacksTaposFields(tx) ==
    \/ tx.expiration.t = "undefined"
    \/ tx.ref_block_num.t # "number"
    \/ tx.ref_block_prefix.t # "number"

ExclusiveError == Err("Use either blocksBehind or useLastIrreversible")
TaposError == Err("Required configuration or TAPOS fields are not present")

\* C1: a transact call given both blocksBehind (a number) and
\* useLastIrreversible fails at once with the configuration error: it has
\* issued no remote call and started no ABI fetch, and the step that makes the
\* call leaves chainId, cachedAbis and contracts as they were.
C1_BothKnobsFailBeforeAnyRemoteCall ==
    [][\A c \in Calls :
        (calls'[c].op = "transact" /\ BothTaposKnobs(calls'[c].cfg)) =>
            /\ calls'[c].pc = "done"
            /\ calls'[c].err = ExclusiveError
            /\ calls'[c].log = <<>>
            /\ calls'[c].tasks = <<>>
            /\ chainId' = chainId
            /\ cachedAbis' = cachedAbis
            /\ contracts' = contracts]_vars

C1_Witness ==
    \E c \in Calls :
        /\ calls[c].op = "transact"
        /\ calls[c].cfg.blocksBehind = Num(3)
        /\ calls[c].cfg.useLastIrreversible
        /\ calls[c].pc = "done"
        /\ calls[c].err = ExclusiveError
        /\ chainId = ""

\* C2: a transact call with no TAPOS selection in its config, on a
\* transaction without complete TAPOS fields, issues no remote call but the
\* get_info that looks the chain id up (no block or header-state fetch, no ABI
\* fetch, no signing call, no submission) and, that lookup having answered,
\* ends with the configuration error, whatever sign and broadcast are.
C2_NoTaposNoRemoteCalls ==
    \A c \in Calls :
        LET k == calls[c]
        IN  (k.op = "transact" /\ NoTaposSelection(k.cfg) /\ LacksTaposFields(k.arg)) =>
                /\ \A i \in 1..Len(k.log) : k.log[i].op = "get_info"
                /\ Len(k.log) <= 1
                /\ k.tasks = <<>>
                /\ k.pc \in {"get_info", "done"}
                /\ k.pc = "done" =>
                     \/ k.err = TaposError
                     \/ k.err = Err("get_info") /\ k.log = <<Ev("get_info", "", 0)>>

C2_Witness ==
    \E c \in Calls :
        /\ calls[c].op = "transact"
        /\ NoTaposSelection(calls[c].cfg)
        /\ calls[c].arg.expiration = Undef
        /\ calls[c].cfg.sign /\ calls[c].cfg.broadcast
        /\ calls[c].log = <<Ev("get_info", "", 0)>>
        /\ calls[c].pc = "done"
        /\ calls[c].err = TaposError

\* C3: a getCachedAbi(A) call without reload made when A has a cache entry
\* fetches nothing, returns that entry and leaves the cache alone; made when A
\* has none, or with reload, it calls getRawAbi for A exactly once, and when it
\* succeeds the entry it returns is the one then stored for A.  So two calls
\* in sequence without reload fetch once and return the same entry, and a
\* reload fetches again and replaces the entry.
C3_FetchOnceThenReuse ==
    [][\A c \in Calls :
        LET k == calls[c]
            n == calls'[c]
            a == n.account
        IN  /\ (k.op = "idle" /\ n.op = "getCachedAbi") =>
                IF ~n.reload /\ a \in DOMAIN cachedAbis
                THEN /\ n.pc = "done" /\ n.err = NoErr
                     /\ n.result = cachedAbis[a]
                     /\ n.log = <<>>
                     /\ cachedAbis' = cachedAbis
                ELSE /\ n.pc = "fetch"
                     /\ n.log = <<Ev("getRawAbi", a, 0)>>
            /\ (k.op = "getCachedAbi" /\ k.pc = "fetch" /\ n.pc = "done" /\ n.err = NoErr) =>
                /\ n.log = <<Ev("getRawAbi", a, 0)>>
                /\ a \in DOMAIN cachedAbis'
                /\ cachedAbis'[a] = n.result
                /\ n.result.rawAbi.v \in k.tasks[1].lo..chainAbi[a]
                /\ n.result.abi = deserializeAbiDef(n.result.rawAbi)]_vars

C3_Witness ==
    \E c \in Calls :
        /\ calls[c].op = "getCachedAbi"
        /\ ~calls[c].reload
        /\ calls[c].pc = "done"
        /\ calls[c].log = <<>>
        /\ calls[c].result = cachedAbis[calls[c].account]
        /\ calls[c].result.rawAbi.v = MaxVer

\* C4: every account with an entry in contracts has an entry in cachedAbis,
\* and its contract is the one derived from that ABI.
C4_ContractIsOfCachedAbi ==
    \A a \in DOMAIN contracts :
        /\ a \in DOMAIN cachedAbis
        /\ contracts[a] = ContractOf(cachedAbis[a].abi)

\* The caller's own value of a TAPOS field, else the reference block's.
Merged(own, fromBlock) == IF own.t = "undefined" THEN fromBlock ELSE own

\* C5: in a transact call whose reference block number exceeds
\* last_irreversible_block_num, get_block_header_state is asked first for that
\* number and, when it fails, get_block for the same number: the failure is not
\* the call's error and the block's fields fill the TAPOS fields the caller
\* left out.  At or below last_irreversible_block_num the only block fetch
\* is one get_block for that number.
C5_TaposFallback ==
    \A c \in Calls :
        LET k == calls[c]
            n == k.refNum
            hs == Ev("get_block_header_state", "", n)
            gb == Ev("get_block", "", n)
            header == transactionHeader(Block(n), k.cfg.expireSeconds)
        IN  (k.op = "transact" /\ BlockFetches(k) # <<>>) =>
                /\ k.info \in Infos
                /\ n = IF k.cfg.useLastIrreversible
                       THEN k.info.last_irreversible_block_num
                       ELSE k.info.head_block_num - k.cfg.blocksBehind.v
                /\ IF n <= k.info.last_irreversible_block_num
                   THEN BlockFetches(k) = <<gb>>
                   ELSE BlockFetches(k) \in {<<hs>>, <<hs, gb>>}
                /\ k.pc = "header_state" => BlockFetches(k) = <<hs>>
                /\ k.pc = "fallback_block" => BlockFetches(k) = <<hs, gb>>
                /\ k.pc = "get_block" => BlockFetches(k) = <<gb>>
                /\ k.err.msg # "get_block_header_state"
                /\ (k.pc \notin {"get_block", "header_state", "fallback_block"}
                        /\ k.err # Err("get_block")) =>
                      /\ k.tx.expiration = Merged(k.arg.expiration, header.expiration)
                      /\ k.tx.ref_block_num = Merged(k.arg.ref_block_num, header.ref_block_num)
                      /\ k.tx.ref_block_prefix =
                            Merged(k.arg.ref_block_prefix, header.ref_block_prefix)

C5_Witness ==
    \E c \in Calls :
        LET k == calls[c]
        IN  /\ k.op = "transact"
            /\ k.arg.ref_block_num = Undef
            /\ k.refNum > k.info.last_irreversible_block_num
            /\ BlockFetches(k) = <<Ev("get_block_header_state", "", k.refNum),
                                   Ev("get_block", "", k.refNum)>>
            /\ k.pc = "done" /\ k.err = NoErr
            /\ k.tx.ref_block_num = Num(k.refNum % 65536)

\* C6: a transact call with broadcast and sign both false never calls
\* getAvailableKeys, getRequiredKeys, sign or send_transaction; when it
\* succeeds it returns no signatures, the serializedTransaction it assembled,
\* and null serializedContextFreeData if the transaction has no context-free
\* data; with blocksBehind 3, head 100 and last irreversible 97 its only block
\* fetch is get_block(97).
C6_UnsignedUnbroadcast ==
    \A c \in Calls :
        LET k == calls[c]
        IN  (k.op = "transact" /\ ~k.cfg.broadcast /\ ~k.cfg.sign) =>
                /\ \A i \in 1..Len(k.log) :
                        k.log[i].op \notin SigningOps \cup {"send_transaction"}
                /\ (k.pc = "done" /\ k.err = NoErr) =>
                      /\ k.result.signatures = <<>>
                      /\ k.result.serializedTransaction = serializeTransaction(k.tx)
                      /\ k.result.serializedTransaction.encoder = "api"
                      /\ \A i \in 1..Len(k.tx.actions) :
                            IsWasm(k.tx.actions[i].account)
                                \/ k.tx.actions[i].data.form = "hex"
                      /\ k.arg.context_free_data = <<>> =>
                            k.result.serializedContextFreeData = NullBytes
                      /\ k.arg.context_free_data # <<>> =>
                            ~k.result.serializedContextFreeData.isNull
                /\ (k.cfg.blocksBehind = Num(3) /\ k.info.head_block_num = 100
                        /\ k.info.last_irreversible_block_num = 97
                        /\ BlockFetches(k) # <<>>) =>
                      BlockFetches(k) = <<Ev("get_block", "", 97)>>

C6_Witness ==
    \E c \in Calls :
        LET k == calls[c]
        IN  /\ k.op = "transact" /\ ~k.cfg.broadcast /\ ~k.cfg.sign
            /\ k.cfg.blocksBehind = Num(3)
            /\ k.info.head_block_num = 100
            /\ BlockFetches(k) = <<Ev("get_block", "", 97)>>
            /\ k.pc = "done" /\ k.err = NoErr
            /\ k.result.signatures = <<>>
            /\ k.result.serializedContextFreeData = NullBytes

\* C7: once send_transaction has answered, the transact call succeeds with
\* the node's response: the same traces of the same accounts, where for an
\* account of the wasm ABI registry the act.data whose decode hook threw and
\* the return_value whose decode hook threw are the node's hex content.
C7_EnrichmentIsBestEffort ==
    \A c \in Calls :
        LET k == calls[c]
        IN  (k.op = "transact" /\ k.response # NoResponse) =>
                /\ k.pc = "done" /\ k.err = NoErr
                /\ k.result.processed = k.response.processed
                /\ Len(k.result.action_traces) = Len(k.response.action_traces)
                /\ \A i \in 1..Len(k.response.action_traces) :
                        LET sent == k.response.action_traces[i]
                            got == k.result.action_traces[i]
                        IN  /\ got.act.account = sent.act.account
                            /\ got.has_return_value = sent.has_return_value
                            /\ ~k.hooks[i].args => got.act.data = sent.act.data
                            /\ ~k.hooks[i].ret => got.return_value = sent.return_value
                            /\ ~IsWasm(sent.act.account) => got = sent

C7_Witness ==
    \E c \in Calls :
        LET k == calls[c]
        IN  /\ k.op = "transact" /\ k.pc = "done" /\ k.err = NoErr
            /\ k.response # NoResponse
            /\ \E i \in 1..Len(k.result.action_traces) :
                    /\ IsWasm(k.result.action_traces[i].act.account)
                    /\ ~k.hooks[i].args /\ ~k.hooks[i].ret
                    /\ k.result.action_traces[i].has_return_value
                    /\ k.result.action_traces[i].act.data = "hex"
                    /\ k.result.action_traces[i].return_value = "hex"

\* Every cache entry holds bytes of a supported version that decode, and
\* the document decoded from them.
CacheEntriesDecoded ==
    \A a \in DOMAIN cachedAbis :
        /\ supportedAbiVersion(cachedAbis[a].rawAbi.hdr)
        /\ cachedAbis[a].rawAbi.wf
        /\ cachedAbis[a].abi = deserializeAbiDef(cachedAbis[a].rawAbi)

\* C8: a getCachedAbi whose fetch fails (the provider fails, or the bytes
\* have an unsupported version or do not decode) raises an error prefixed with
\* the account and leaves cachedAbis and contracts exactly as they were; no
\* entry of unsupported or undecodable bytes is ever stored.
C8_FailedFetchStoresNothing ==
    [][/\ \A c \in Calls : \A i \in 1..Len(calls[c].tasks) :
            (calls[c].tasks[i].st = "pending" /\ calls'[c].tasks[i].st = "failed") =>
                /\ cachedAbis' = cachedAbis
                /\ contracts' = contracts
                /\ calls'[c].tasks[i].err.prefix =
                        <<"fetching abi for", calls[c].tasks[i].acct>>
                /\ calls[c].pc # "done" =>
                        /\ calls'[c].pc = "done"
                        /\ calls'[c].err = calls'[c].tasks[i].err
       /\ CacheEntriesDecoded']_vars

C8_Witness ==
    \E c \in Calls :
        LET k == calls[c]
        IN  /\ k.op = "getCachedAbi" /\ k.reload
            /\ k.pc = "done"
            /\ k.err = FetchError(k.account, "Unsupported abi version")
            /\ k.account \in DOMAIN cachedAbis
            /\ k.account \in DOMAIN contracts

\* C9: whenever transact is called with compression, the payload handed to
\* send_transaction, and the payload returned when not broadcasting, has
\* compression 1, with sign false and with sign true.
C9_CompressionFlagKept ==
    \A c \in Calls :
        LET k == calls[c]
        IN  (k.op = "transact" /\ k.cfg.compression) =>
                /\ Has(k, "send_transaction") => k.sent.compression = 1
                /\ (k.pc = "done" /\ k.err = NoErr /\ ~k.cfg.broadcast) =>
                        k.result.compression = 1

Rank(op) ==
    CASE op = "get_info" -> 1
      [] op \in {"get_block", "get_block_header_state"} -> 2
      [] op = "getRawAbi" -> 3
      [] op = "assemble" -> 4
      [] op = "getAvailableKeys" -> 5
      [] op = "getRequiredKeys" -> 6
      [] op = "sign" -> 7
      [] op = "send_transaction" -> 8

\* The remote call a transact call waits for.
Awaited(pc) ==
    CASE pc \in {"get_info", "tapos_info"} -> "get_info"
      [] pc \in {"get_block", "fallback_block"} -> "get_block"
      [] pc = "header_state" -> "get_block_header_state"
      [] pc = "abis" -> "getRawAbi"
      [] pc = "available_keys" -> "getAvailableKeys"
      [] pc = "required_keys" -> "getRequiredKeys"
      [] pc = "sign" -> "sign"
      [] pc = "send" -> "send_transaction"

\* C10: in every transact call the operations come in the order get_info,
\* block fetch, ABI fetches, assembly, getAvailableKeys, getRequiredKeys, sign,
\* send_transaction, each started when the one before has answered: the call
\* waits for the operation it started last, no ABI fetch is outstanding once
\* the transaction is assembled, the chain id is known and the configured
\* reference block fetched before the first ABI fetch, and a signed
\* transaction is submitted only after sign.
C10_OperationsInOrder ==
    \A c \in Calls :
        LET k == calls[c]
            ops == [i \in 1..Len(k.log) |-> k.log[i].op]
        IN  k.op = "transact" =>
                /\ \A i, j \in 1..Len(ops) :
                        i < j => /\ Rank(ops[i]) <= Rank(ops[j])
                                 /\ Rank(ops[j]) >= 4 => Rank(ops[i]) < Rank(ops[j])
                /\ k.pc # "done" => ops # <<>> /\ ops[Len(ops)] = Awaited(k.pc)
                /\ Pending(k) => \A i \in 1..Len(ops) : Rank(ops[i]) <= 3
                /\ Has(k, "assemble") => AllOk(k.tasks)
                /\ (Has(k, "getRawAbi") \/ Has(k, "assemble")) =>
                        /\ chainId # ""
                        /\ (k.cfg.useLastIrreversible \/ IsNumber(k.cfg.blocksBehind))
                                /\ Truthy(k.cfg.expireSeconds)
                             => Has(k, "get_block") \/ Has(k, "get_block_header_state")
                /\ Has(k, "getRequiredKeys") => Has(k, "getAvailableKeys")
                /\ Has(k, "sign") =>
                        /\ Has(k, "assemble")
                        /\ k.cfg.requiredKeys.def \/ Has(k, "getRequiredKeys")
                /\ Has(k, "send_transaction") =>
                        /\ Has(k, "assemble")
                        /\ k.cfg.sign => Has(k, "sign")

C10_Witness ==
    \E c \in Calls :
        LET k == calls[c]
        IN  /\ k.op = "transact" /\ k.pc = "send"
            /\ [i \in 1..Len(k.log) |-> k.log[i].op] =
                    <<"get_info", "get_block", "getRawAbi", "assemble",
                      "getAvailableKeys", "getRequiredKeys", "sign", "send_transaction">>

\* The tasks of a call that have failed.
FailedTasks(k) == {i \in 1..Len(k.tasks) : k.tasks[i].st = "failed"}

\* C11: when the ABI fetch of any account of a transact call fails, the
\* call ends with the error of a failed fetch and has called, and will call,
\* neither getAvailableKeys, getRequiredKeys, sign nor send_transaction, nor
\* assembled the transaction, in whatever order the fetches of the call
\* answer; a fetch that succeeds stores its entry in cachedAbis, also after
\* the call has failed.
C11_FailFastAbiResolution ==
    [][\A c \in Calls :
        LET k == calls[c]
            n == calls'[c]
        IN  /\ (n.op = "transact" /\ FailedTasks(n) # {}) =>
                /\ n.pc = "done"
                /\ \E i \in FailedTasks(n) : n.err = n.tasks[i].err
                /\ n.err.prefix = <<"fetching abi for", n.err.prefix[2]>>
                /\ \A j \in 1..Len(n.log) : n.log[j].op \in {"get_info", "get_block",
                        "get_block_header_state", "getRawAbi"}
                /\ n.result = NoResult
                /\ FailedTasks(k) # {} => n.err = k.err
            /\ \A i \in 1..Len(k.tasks) :
                (k.op = "transact" /\ k.tasks[i].st = "pending"
                        /\ Len(n.tasks) = Len(k.tasks) /\ n.tasks[i].st = "ok") =>
                    /\ n.tasks[i].acct \in DOMAIN cachedAbis'
                    /\ cachedAbis'[n.tasks[i].acct] = n.tasks[i].res
                    /\ n.tasks[i].res.abi = deserializeAbiDef(n.tasks[i].res.rawAbi)]_vars

C11_Witness ==
    \E c \in Calls :
        LET k == calls[c]
        IN  /\ k.op = "transact" /\ k.pc = "done"
            /\ Len(k.tasks) = 2
            /\ k.tasks[1].st = "failed" /\ k.tasks[2].st = "ok"
            /\ k.err = k.tasks[1].err
            /\ k.cfg.sign /\ k.cfg.broadcast
            /\ k.tasks[2].acct \in DOMAIN cachedAbis
            /\ k.tasks[1].acct \notin DOMAIN cachedAbis

\* The position of the first op event of a log (0 when there is none).
FirstAt(log, op) ==
    IF \E i \in 1..Len(log) : log[i].op = op
    THEN CHOOSE i \in 1..Len(log) : log[i].op = op /\ \A j \in 1..(i - 1) : log[j].op # op
    ELSE 0

\* The non-wasm accounts of a transaction, as a set.
AbiAccounts(tx) ==
    {a \in Accounts : /\ ~IsWasm(a)
                      /\ \/ \E i \in 1..Len(tx.actions) : tx.actions[i].account = a
                         \/ \E i \in 1..Len(tx.context_free_actions) :
                                tx.context_free_actions[i].account = a}

\* C12: a transact call that signs without supplied requiredKeys calls
\* getAvailableKeys, then getRequiredKeys with the assembled transaction and
\* the available keys, then sign with the keys getRequiredKeys answered; with
\* supplied requiredKeys it calls neither and sign gets exactly the supplied
\* keys.  Either way sign gets the Api's chain id, the serializedTransaction
\* and serializedContextFreeData assembled, and the ABIs resolved for the
\* transaction.
C12_KeyResolution ==
    \A c \in Calls :
        LET k == calls[c]
        IN  (k.op = "transact" /\ Has(k, "sign")) =>
                /\ k.cfg.sign
                /\ IF k.cfg.requiredKeys.def
                   THEN /\ ~Has(k, "getAvailableKeys") /\ ~Has(k, "getRequiredKeys")
                        /\ k.signReq.requiredKeys = k.cfg.requiredKeys.keys
                   ELSE /\ 0 < FirstAt(k.log, "getAvailableKeys")
                        /\ FirstAt(k.log, "getAvailableKeys") < FirstAt(k.log, "getRequiredKeys")
                        /\ FirstAt(k.log, "getRequiredKeys") < FirstAt(k.log, "sign")
                        /\ k.keysReq = [transaction |-> k.tx, availableKeys |-> AvailableKeys]
                        /\ k.requiredKeys.def
                        /\ k.requiredKeys.keys \in RequiredKeySets
                        /\ k.signReq.requiredKeys = k.requiredKeys.keys
                /\ k.signReq.chainId = chainId /\ chainId # ""
                /\ k.signReq.serializedTransaction = serializeTransaction(k.tx)
                /\ k.signReq.serializedContextFreeData =
                        serializeContextFreeData(k.arg.context_free_data)
                /\ {k.signReq.abis[i].accountName : i \in 1..Len(k.signReq.abis)}
                        = AbiAccounts(k.arg)
                /\ \A i \in 1..Len(k.signReq.abis) :
                        /\ k.signReq.abis[i].accountName = k.tasks[i].acct
                        /\ k.signReq.abis[i].abi = k.tasks[i].res.rawAbi
                        /\ k.signReq.abis[i].abi.wf

C12_Witness ==
    \E c \in Calls :
        /\ calls[c].op = "transact" /\ calls[c].pc = "sign"
        /\ ~calls[c].cfg.requiredKeys.def
        /\ calls[c].signReq.requiredKeys = {"PUB_K1"}
        /\ calls[c].keysReq.availableKeys = {"PUB_K1", "PUB_K2"}
        /\ Len(calls[c].signReq.abis) = 2
        /\ calls[c].signReq.serializedContextFreeData # NullBytes
        /\ chainId = "cid-node"

Submissions(k) == SelectSeq(k.log, LAMBDA e : e.op = "fetchBuiltin")

\* C13: a query call submits its transaction of one queryit action by the
\* raw POST to the send_transaction path, once, and never calls
\* rpc.send_transaction, rpc.push_transaction or get_block_header_state; its
\* only block fetch is get_block(last_irreversible_block_num); and when
\* the response's JSON has a non-zero code the call ends with an RpcError
\* and returns no decoded value.
C13_QueryRawSubmission ==
    \A c \in Calls :
        LET k == calls[c]
        IN  k.op = "query" =>
                /\ \A i \in 1..Len(k.log) :
                        k.log[i].op \in {"get_info", "get_block", "getRawAbi", "assemble",
                                         "getAvailableKeys", "getRequiredKeys", "sign",
                                         "fetchBuiltin"}
                /\ Submissions(k) \in {<<>>, <<Ev("fetchBuiltin", SendTransactionPath, 0)>>}
                /\ BlockFetches(k) \in
                        {<<>>, <<Ev("get_block", "", k.info.last_irreversible_block_num)>>}
                /\ (BlockFetches(k) # <<>>) => k.info \in Infos
                /\ Submissions(k) # <<>> =>
                        /\ Len(k.tx.actions) = 1
                        /\ k.tx.actions[1].account = k.account
                        /\ k.tx.actions[1].name = "queryit"
                        /\ k.tx.context_free_actions = <<>>
                        /\ k.sent.serializedTransaction = serializeTransaction(k.tx)
                        /\ k.tx.ref_block_num =
                                Num(k.info.last_irreversible_block_num % 65536)
                /\ (k.result # NoResult \/ k.response # NoResponse) => Submissions(k) # <<>>
                /\ (k.response # NoResponse /\ k.response.code # 0) =>
                        /\ k.pc = "done"
                        /\ k.err = RpcError(k.response)
                        /\ k.result = NoResult
                /\ k.result # NoResult =>
                        /\ k.response.code = 0
                        /\ k.result = deserializeAnyvar(k.short, k.response.return_value)

C13_Witness ==
    \E c \in Calls :
        LET k == calls[c]
        IN  /\ k.op = "query" /\ k.pc = "done"
            /\ k.cfg.sign
            /\ k.response # NoResponse
            /\ k.response.code = 500
            /\ k.err = RpcError(k.response)
            /\ Has(k, "sign")
            /\ Submissions(k) = <<Ev("fetchBuiltin", SendTransactionPath, 0)>>
            /\ BlockFetches(k) = <<Ev("get_block", "", 97)>>

\* C14: a transact call asks get_info for the chain id only when the Api
\* has none; a chain id once set, by the constructor or by a transact call,
\* is never changed; the chain id a transact call sets is the one get_info
\* answered; and every sign request carries the Api's chain id.
C14_ChainIdCachedOnce ==
    [][/\ chainId # "" => chainId' = chainId
       /\ \A c \in Calls :
            LET k == calls[c]
                n == calls'[c]
            IN  /\ (k.op = "idle" /\ n.op = "transact") =>
                    /\ n.pc = "get_info" => chainId = ""
                    /\ (chainId = "" /\ ~BothTaposKnobs(n.cfg)) =>
                            n.pc = "get_info" /\ n.log = <<Ev("get_info", "", 0)>>
                    /\ chainId' = chainId
                /\ (k.pc = "get_info" /\ n.op = "transact" /\ n.info # NoInfo) =>
                    chainId' = n.info.chain_id
                /\ (n.op = "transact" /\ n.signReq # NoSignReq) =>
                    /\ chainId' # ""
                    /\ n.signReq.chainId = chainId']_vars

C14_Witness ==
    \E c \in Calls :
        LET k == calls[c]
        IN  /\ k.op = "transact"
            /\ chainId = "cid-node"
            /\ ~Has(k, "get_info")
            /\ Has(k, "sign")
            /\ k.signReq.chainId = "cid-node"

\* The tasks whose fetch succeeds in the step.
Stored(c) ==
    {i \in 1..Len(calls[c].tasks) :
        /\ calls[c].tasks[i].st = "pending"
        /\ Len(calls'[c].tasks) = Len(calls[c].tasks)
        /\ calls'[c].tasks[i].st = "ok"}

\* C15: with getCachedAbi, getContract and transact calls on one account in
\* flight together, their fetches answering in any order, every entry of
\* cachedAbis is one fetch's bytes with the document decoded from them; the
\* cache changes only when a fetch succeeds, and then the account's entry is
\* that fetch's; and a call fetches an account at most once, and only with
\* reload or when the account had no entry.
C15_NoTornEntries ==
    [][/\ CacheEntriesDecoded'
       /\ \A c \in Calls : \A i \in Stored(c) :
            /\ cachedAbis' = MapSet(cachedAbis, calls[c].tasks[i].acct, calls'[c].tasks[i].res)
            /\ calls'[c].tasks[i].res.rawAbi.v \in calls[c].tasks[i].lo..chainAbi[calls[c].tasks[i].acct]
       /\ (\A c \in Calls : Stored(c) = {}) => cachedAbis' = cachedAbis
       /\ \A c \in Calls : \A a \in Accounts :
            /\ Len(AbiFetches(calls'[c], a)) <= 1
            /\ (Len(AbiFetches(calls'[c], a)) > Len(AbiFetches(calls[c], a))
                    /\ calls'[c].op = calls[c].op) =>
                  a \notin DOMAIN cachedAbis
            /\ (Len(AbiFetches(calls'[c], a)) = 1 /\ calls[c].op = "idle") =>
                  calls'[c].reload \/ a \notin DOMAIN cachedAbis]_vars

\* The later-issued fetch has answered first and the earlier-issued one,
\* of the earlier revision, last: the cache holds the earlier revision.
C15_Witness ==
    \E c, d \in Calls :
        /\ c # d
        /\ calls[c].op = "getCachedAbi" /\ calls[c].reload
        /\ calls[d].op = "getContract"
        /\ calls[c].tasks # <<>> /\ calls[d].tasks # <<>>
        /\ calls[c].tasks[1].st = "ok" /\ calls[d].tasks[1].st = "ok"
        /\ calls[c].tasks[1].lo = 2 /\ calls[c].tasks[1].res.rawAbi.v = 2
        /\ calls[d].tasks[1].lo = 1 /\ calls[d].tasks[1].res.rawAbi.v = 1
        /\ cachedAbis[RaceAccount] = calls[d].tasks[1].res

\* The call has entered getTransactionAbis.
ResolvingAbis(k) == k.tasks # <<>> \/ Has(k, "assemble")

\* C16: when a transact call enters getTransactionAbis it calls getRawAbi
\* once for every account of its context_free_actions and actions that is
\* neither in the wasm ABI registry nor cached, however many actions name the
\* account, and for no other account; so from an empty cache every such
\* account is fetched exactly once.  The call never fetches an account again,
\* and the abis handed to sign have exactly one entry per such account.
C16_AbiFetchPerDistinctAccount ==
    [][\A c \in Calls :
        LET k == calls[c]
            n == calls'[c]
        IN  n.op = "transact" =>
                /\ (ResolvingAbis(n) /\ ~(k.op = "transact" /\ ResolvingAbis(k))) =>
                      \A a \in Accounts :
                        Len(AbiFetches(n, a)) =
                            IF a \in AbiAccounts(n.arg) /\ a \notin DOMAIN cachedAbis
                            THEN 1 ELSE 0
                /\ (k.op = "transact" /\ ResolvingAbis(k)) =>
                      \A a \in Accounts : AbiFetches(n, a) = AbiFetches(k, a)
                /\ ~ResolvingAbis(n) => \A a \in Accounts : AbiFetches(n, a) = <<>>
                /\ \A a \in Accounts : IsWasm(a) => AbiFetches(n, a) = <<>>
                /\ n.signReq # NoSignReq =>
                      /\ Len(n.signReq.abis) = Cardinality(AbiAccounts(n.arg))
                      /\ \A a \in AbiAccounts(n.arg) :
                            \E i \in 1..Len(n.signReq.abis) :
                                n.signReq.abis[i].accountName = a]_vars

\* Two actions of one account: one fetch, one entry for sign.
C16_Witness ==
    \E c \in Calls :
        LET k == calls[c]
        IN  /\ k.op = "transact" /\ k.pc = "sign"
            /\ Len(k.arg.actions) = 2
            /\ k.arg.actions[1].account = "eosio.token"
            /\ k.arg.actions[2].account = "eosio.token"
            /\ SelectSeq(k.log, LAMBDA e : e.op = "getRawAbi")
                    = <<Ev("getRawAbi", "eosio.token", 0)>>
            /\ Len(k.signReq.abis) = 1
            /\ k.signReq.abis[1].accountName = "eosio.token"

ConvertOps == {"serializeActions", "deserializeActions"}

\* C17: a serializeActions or deserializeActions call that succeeds returns
\* as many actions as it was given, element i being the conversion of the
\* i-th action given (its account and name, its data converted by the
\* contract that the lookup of action i obtained), in whatever order the
\* lookups answer; an action of an account in the wasm ABI registry is
\* returned as it is, and no contract is looked up and no ABI fetched for it.
C17_ConversionKeepsPositions ==
    \A c \in Calls :
        LET k == calls[c]
            in == k.arg.actions
        IN  k.op \in ConvertOps =>
                /\ Len(k.tasks) = Len(in)
                /\ \A i \in 1..Len(in) :
                        /\ k.tasks[i].acct = in[i].account
                        /\ IsWasm(in[i].account) <=> k.tasks[i].st = "skip"
                /\ \A a \in Accounts : IsWasm(a) =>
                        /\ AbiFetches(k, a) = <<>>
                        /\ a \notin DOMAIN contracts
                        /\ a \notin DOMAIN cachedAbis
                /\ (k.pc = "done" /\ k.err = NoErr) =>
                        /\ Len(k.result) = Len(in)
                        /\ \A i \in 1..Len(in) :
                            /\ k.result[i].account = in[i].account
                            /\ k.result[i].name = in[i].name
                            /\ IsWasm(in[i].account) => k.result[i] = in[i]
                            /\ ~IsWasm(in[i].account) =>
                                /\ k.result[i].data.form =
                                      IF k.op = "serializeActions" THEN "hex" ELSE "json"
                                /\ k.result[i].data.codec \in 1..MaxVer
                            /\ k.tasks[i].st = "ok" =>
                                k.result[i] = ConvertAction(k.op,
                                    ContractOf(k.tasks[i].res.abi), in[i])

\* Two actions of one account fetched together; the second lookup answered
\* the later revision, the first the earlier one.
C17_Witness ==
    \E c \in Calls :
        LET k == calls[c]
        IN  /\ k.op = "serializeActions" /\ k.pc = "done" /\ k.err = NoErr
            /\ Len(k.result) = 2
            /\ k.tasks[1].st = "ok" /\ k.tasks[2].st = "ok"
            /\ k.result[1].data.codec = 1
            /\ k.result[2].data.codec = 2
            /\ k.result[1].name = "transfer" /\ k.result[2].name = "issue"
            /\ contracts[k.tasks[1].acct] = ContractOf(k.tasks[1].res.abi)

\* The block number generateTapos is to ask for.
ExpectedRefBlock(k) ==
    IF k.cfg.useLastIrreversible THEN k.info.last_irreversible_block_num
    ELSE k.info.head_block_num - k.cfg.blocksBehind.v

\* The reference block has answered and its fields are merged.
TaposMerged(k) ==
    /\ BlockFetches(k) # <<>>
    /\ k.pc \notin {"get_block", "header_state", "fallback_block"}
    /\ k.err # Err("get_block")

\* C18: the block a transact call fetches for TAPOS is number
\* head_block_num - blocksBehind when blocksBehind is a number (0 too) and
\* useLastIrreversible is not set, and last_irreversible_block_num when it is
\* set; once merged, ref_block_num is that number modulo 65536,
\* ref_block_prefix the block's prefix and expiration the block's timestamp
\* plus expireSeconds, except for the fields the caller supplied, which keep
\* the caller's value.
C18_TaposPopulation ==
    \A c \in Calls :
        LET k == calls[c]
            n == ExpectedRefBlock(k)
        IN  (k.op = "transact" /\ BlockFetches(k) # <<>>) =>
                /\ IsNumber(k.cfg.blocksBehind) # k.cfg.useLastIrreversible
                /\ k.cfg.expireSeconds.t = "number" /\ k.cfg.expireSeconds.v > 0
                /\ \A i \in 1..Len(BlockFetches(k)) : BlockFetches(k)[i].num = n
                /\ TaposMerged(k) =>
                    /\ k.tx.ref_block_num =
                          IF k.arg.ref_block_num = Undef
                          THEN Num(n % 65536) ELSE k.arg.ref_block_num
                    /\ k.tx.ref_block_prefix =
                          IF k.arg.ref_block_prefix = Undef
                          THEN Num(BlockPrefix(n)) ELSE k.arg.ref_block_prefix
                    /\ k.tx.expiration =
                          IF k.arg.expiration = Undef
                          THEN Num(BlockTimestamp(n) + k.cfg.expireSeconds.v)
                          ELSE k.arg.expiration

\* blocksBehind 0 on head block 65540, the caller supplying the expiration.
C18_Witness ==
    \E c \in Calls :
        LET k == calls[c]
        IN  /\ k.op = "transact" /\ k.pc = "done" /\ k.err = NoErr
            /\ k.cfg.blocksBehind = Num(0) /\ ~k.cfg.useLastIrreversible
            /\ k.info.head_block_num = 65540
            /\ BlockFetches(k) # <<>>
            /\ BlockFetches(k)[1] = Ev("get_block_header_state", "", 65540)
            /\ k.arg.expiration = Num(2000) /\ k.arg.ref_block_num = Undef
            /\ k.tx.expiration = Num(2000)
            /\ k.tx.ref_block_num = Num(4)
            /\ k.tx.ref_block_prefix = Num(BlockPrefix(65540))

\* The transaction has an expiration and numeric ref_block_num and
\* ref_block_prefix.
TaposComplete(tx) ==
    /\ tx.expiration.t \in {"number", "string"}
    /\ tx.ref_block_num.t = "number"
    /\ tx.ref_block_prefix.t = "number"

\* The caller's transaction carries a TAPOS field that is null or of the
\* wrong type.
SuppliesBadTapos(tx) ==
    \/ tx.expiration.t = "null"
    \/ tx.ref_block_num.t \notin {"undefined", "number"}
    \/ tx.ref_block_prefix.t \notin {"undefined", "number"}

\* C19: a transact call starts its ABI fetches, assembles the transaction,
\* asks for keys or signatures and submits only with a transaction that has
\* an expiration and numeric ref_block_num and ref_block_prefix; and when the
\* caller's own fields replace the reference block's by a null or wrongly
\* typed value, the call ends with the configuration error once the block has
\* answered, without any ABI fetch.
C19_TaposCompleteBeforeAssembly ==
    \A c \in Calls :
        LET k == calls[c]
        IN  k.op = "transact" =>
                /\ (k.tasks # <<>> \/ \E i \in 1..Len(k.log) :
                        k.log[i].op \in {"getRawAbi", "assemble", "getAvailableKeys",
                                         "getRequiredKeys", "sign", "send_transaction"})
                      => /\ TaposComplete(k.tx)
                         /\ ~SuppliesBadTapos(k.arg)
                /\ (k.pc = "done" /\ k.err = NoErr) => TaposComplete(k.tx)
                /\ (SuppliesBadTapos(k.arg) /\ TaposMerged(k)) =>
                      /\ k.pc = "done"
                      /\ k.err = TaposError
                      /\ k.tasks = <<>>
                      /\ k.log[Len(k.log)].op \in {"get_block", "get_block_header_state"}
                      /\ k.tx.actions = k.arg.actions

C19_Witness ==
    \E c \in Calls :
        LET k == calls[c]
        IN  /\ k.op = "transact" /\ k.pc = "done"
            /\ k.arg.expiration = Null
            /\ k.cfg.blocksBehind = Num(3) /\ k.cfg.expireSeconds = Num(30)
            /\ BlockFetches(k) = <<Ev("get_block", "", 97)>>
            /\ k.tx.ref_block_num = Num(97)
            /\ k.tx.expiration = Null
            /\ k.err = TaposError
            /\ k.tasks = <<>>

\* The requests of one kind a call has made.
Requests(k, op) == SelectSeq(k.log, LAMBDA e : e.op = op)

\* The operations of the node and of the signing capability that transact
\* awaits one at a time.
SequentialOps ==
    {"get_info", "get_block", "getAvailableKeys", "getRequiredKeys", "sign",
     "send_transaction"}

\* C20: a transact call asks for signatures at most once and submits at most
\* once; get_info, the key requests and each account's ABI are requested at
\* most once too, and the only second block request is get_block after
\* get_block_header_state; a call that ends with the error of one of these
\* requests made that request last and exactly as often as a call without
\* failure does.
C20_NoRetry ==
    \A c \in Calls :
        LET k == calls[c]
        IN  k.op = "transact" =>
                /\ \A op \in SequentialOps \cup {"get_block_header_state"} :
                        Len(Requests(k, op)) <= 1
                /\ \A a \in Accounts : Len(AbiFetches(k, a)) <= 1
                /\ Len(BlockFetches(k)) = 2 =>
                        /\ BlockFetches(k)[1].op = "get_block_header_state"
                        /\ BlockFetches(k)[2].op = "get_block"
                /\ \A op \in SequentialOps :
                        (k.pc = "done" /\ k.err = Err(op)) =>
                            /\ k.log[Len(k.log)].op = op
                            /\ Len(Requests(k, op)) = 1
                /\ \A a \in Accounts :
                        (k.pc = "done" /\ k.err.prefix = <<"fetching abi for", a>>) =>
                            /\ Len(AbiFetches(k, a)) = 1
                            /\ k.log[Len(k.log)].op = "getRawAbi"

C20_Witness ==
    \E c \in Calls :
        LET k == calls[c]
        IN  /\ k.op = "transact" /\ k.pc = "done"
            /\ k.err = Err("sign")
            /\ Len(Requests(k, "sign")) = 1
            /\ Len(Requests(k, "getRequiredKeys")) = 1
            /\ ~Has(k, "send_transaction")

\* C21: whenever a query call has asked for signatures, the chain identifier
\* of its sign request is the one given at construction or the one of the
\* node's info, also on an instance constructed without a chain identifier.
C21_QuerySignsWithChainId ==
    \A c \in Calls :
        LET k == calls[c]
        IN  (k.op = "query" /\ Has(k, "sign")) =>
                /\ k.signReq.chainId # ""
                /\ k.signReq.chainId \in {"cid-ctor", k.info.chain_id}

\* The accounts whose entry differs between two values of a cache.
ChangedEntries(old, new) ==
    {a \in DOMAIN new : a \notin DOMAIN old \/ old[a] # new[a]}

\* C22: in every step, whatever operation takes it and whether it succeeds
\* or fails, an account with an entry in cachedAbis or in contracts keeps an
\* entry; a step changes at most one account's entry of cachedAbis, and a
\* getCachedAbi, getAbi or getContract call changes no entry of another
\* account than its own; the new entry of cachedAbis is one fetch's bytes
\* with their decoded document and the new contract the one of the
\* account's cached ABI; and a step of no call
\* (the chain publishing a new ABI) and the failure of a fetch change
\* neither cache.
C22_CachesGrowMonotonically ==
    [][/\ DOMAIN cachedAbis \subseteq DOMAIN cachedAbis'
       /\ DOMAIN contracts \subseteq DOMAIN contracts'
       /\ Cardinality(ChangedEntries(cachedAbis, cachedAbis')) <= 1
       /\ \A c \in Calls :
            calls'[c].op \in {"getCachedAbi", "getAbi", "getContract"} =>
                /\ ChangedEntries(cachedAbis, cachedAbis') \subseteq {calls'[c].account}
                /\ ChangedEntries(contracts, contracts') \subseteq {calls'[c].account}
       /\ \A a \in ChangedEntries(cachedAbis, cachedAbis') :
            /\ rawAbiToJson(cachedAbis'[a].rawAbi).ok
            /\ cachedAbis'[a].abi = rawAbiToJson(cachedAbis'[a].rawAbi).abi
            /\ \E c \in Calls : \E i \in 1..Len(calls[c].tasks) :
                 /\ calls[c].tasks[i].acct = a
                 /\ calls[c].tasks[i].st = "pending"
                 /\ calls'[c].tasks[i].st = "ok"
       /\ \A a \in ChangedEntries(contracts, contracts') :
            /\ a \in DOMAIN cachedAbis'
            /\ contracts'[a] = ContractOf(cachedAbis'[a].abi)
       /\ calls' = calls => (cachedAbis' = cachedAbis /\ contracts' = contracts)
       /\ (\E c \in Calls : \E i \in 1..Len(calls[c].tasks) :
              /\ Len(calls'[c].tasks) = Len(calls[c].tasks)
              /\ calls[c].tasks[i].st = "pending"
              /\ calls'[c].tasks[i].st = "failed")
            => (cachedAbis' = cachedAbis /\ contracts' = contracts)]_vars

\* A reloading getContract has replaced one account's ABI and contract by
\* the later revision while the other account keeps the entries it had.
C22_Witness ==
    \E c \in Calls : \E b \in Accounts :
        LET k == calls[c]
        IN  /\ k.op = "getContract" /\ k.reload /\ k.pc = "done" /\ k.err = NoErr
            /\ b # k.account
            /\ k.account \in DOMAIN cachedAbis /\ k.account \in DOMAIN contracts
            /\ cachedAbis[k.account].rawAbi.v = 2
            /\ contracts[k.account] = ContractOf(cachedAbis[k.account].abi)
            /\ b \in DOMAIN cachedAbis /\ b \in DOMAIN contracts
            /\ cachedAbis[b].rawAbi.v = 1
            /\ chainAbi[b] = 2

\* The payload a completed or submitting transact call has produced: the one
\* handed to send_transaction, else the one returned.
Produced(k) ==
    IF k.cfg.broadcast THEN Has(k, "send_transaction")
    ELSE k.pc = "done" /\ k.err = NoErr
Payload(k) == IF k.cfg.broadcast THEN k.sent ELSE k.result

\* C23: the payload a transact call submits, or returns when it does not
\* broadcast, is the answer of signatureProvider.sign when sign is requested,
\* with the serialized transaction as the signer encoded it; without sign it
\* is the payload assembled from the transaction, with no signatures.
C23_PayloadIsSignersResponse ==
    \A c \in Calls :
        LET k == calls[c]
        IN  (k.op = "transact" /\ Produced(k)) =>
                IF k.cfg.sign
                THEN /\ Has(k, "sign")
                     /\ k.signResponse \in SignResponses(k.signReq)
                     /\ Payload(k) = k.signResponse
                ELSE /\ ~Has(k, "sign")
                     /\ Payload(k) = PushArgs(k.tx, k.cfg.compression)
                     /\ Payload(k).signatures = <<>>

\* The signer has encoded the transaction again and its bytes, not the
\* assembled ones, were submitted.
C23_Witness ==
    \E c \in Calls :
        LET k == calls[c]
        IN  /\ k.op = "transact" /\ k.cfg.sign /\ k.cfg.broadcast
            /\ k.pc = "done" /\ k.err = NoErr
            /\ k.signResponse.serializedTransaction.encoder = "signer"
            /\ k.signReq.serializedTransaction = serializeTransaction(k.tx)
            /\ k.sent.serializedTransaction # serializeTransaction(k.tx)
            /\ k.sent = k.signResponse
            /\ k.sent.signatures = <<"SIG">>

\* C24: a transact call asks get_info at most once, the info that gave the
\* chain identifier being the one the TAPOS reference block is computed
\* from; and a call made with the chain identifier known, complete TAPOS
\* fields of the caller and no TAPOS selection asks neither get_info nor any
\* block: its first step is the ABI resolution, and when it completes it has
\* signed and submitted as its configuration says.
C24_InfoFetchedAtMostOnce ==
    [][\A c \in Calls :
        LET k == calls[c]
            n == calls'[c]
        IN  n.op = "transact" =>
              /\ Len(SelectSeq(n.log, LAMBDA e : e.op = "get_info")) <= 1
              /\ (k.pc = "get_info" /\ n.pc \in {"get_block", "header_state"}) =>
                    /\ chainId' = n.info.chain_id
                    /\ n.log[Len(n.log)].num =
                          IF n.cfg.useLastIrreversible
                          THEN n.info.last_irreversible_block_num
                          ELSE n.info.head_block_num - n.cfg.blocksBehind.v
              /\ (k.op = "idle" /\ chainId # "" /\ NoTaposSelection(n.cfg)
                      /\ TaposComplete(n.arg)) =>
                    /\ chainId' = chainId
                    /\ n.log # <<>>
                    /\ n.log[1].op \in {"getRawAbi", "assemble"}
              /\ (~Has(n, "get_info") /\ NoTaposSelection(n.cfg) /\ TaposComplete(n.arg)) =>
                    /\ BlockFetches(n) = <<>>
                    /\ n.tx.expiration = n.arg.expiration
                    /\ (n.pc = "done" /\ n.err = NoErr) =>
                          /\ Has(n, "assemble")
                          /\ n.cfg.sign <=> Has(n, "sign")
                          /\ n.cfg.broadcast <=> Has(n, "send_transaction")]_vars

\* A call with the chain identifier known and the caller's complete TAPOS
\* fields has fetched an ABI, signed and submitted, and nothing else.
C24_Witness ==
    \E c \in Calls :
        LET k == calls[c]
        IN  /\ k.op = "transact" /\ k.pc = "done" /\ k.err = NoErr
            /\ NoTaposSelection(k.cfg) /\ TaposComplete(k.arg)
            /\ k.cfg.sign /\ k.cfg.broadcast
            /\ Len(k.log) = 6
            /\ k.log[1].op = "getRawAbi"
            /\ k.log[2].op = "assemble"
            /\ k.log[3].op = "getAvailableKeys"
            /\ k.log[4].op = "getRequiredKeys"
            /\ k.log[5].op = "sign"
            /\ k.log[6].op = "send_transaction"

PushOps == {"pushSignedTransaction", "pushCompressedSignedTransaction"}

\* C25: pushSignedTransaction hands push_transaction the signatures, the
\* serialized transaction, the serialized context-free data and the
\* compression flag of the payload it was given, and
\* pushCompressedSignedTransaction the same signatures with compression 1 and
\* the deflated transaction and context-free data (of no bytes when the
\* payload has none); the payload is left as it was, and two pushes of one
\* payload by one operation hand over equal requests.
C25_PushedVerbatim ==
    /\ \A c \in Calls :
        LET k == calls[c]
        IN  /\ k.op = "pushSignedTransaction" =>
                /\ k.args \in PushPayloads
                /\ k.sent.signatures = k.args.signatures
                /\ k.sent.serializedTransaction = k.args.serializedTransaction
                /\ k.sent.serializedContextFreeData = k.args.serializedContextFreeData
                /\ k.sent.compression = k.args.compression
            /\ k.op = "pushCompressedSignedTransaction" =>
                /\ k.args \in PushPayloads
                /\ k.sent.signatures = k.args.signatures
                /\ k.sent.compression = 1
                /\ k.sent.serializedTransaction =
                      deflateSerializedArray(k.args.serializedTransaction)
                /\ k.sent.serializedContextFreeData =
                      deflateSerializedArray(
                          IF k.args.serializedContextFreeData.isNull THEN EmptyBytes
                          ELSE k.args.serializedContextFreeData)
    /\ \A c, d \in Calls :
        (calls[c].op \in PushOps /\ calls[c].op = calls[d].op
            /\ calls[c].args = calls[d].args) => calls[c].sent = calls[d].sent

====
